---- MODULE Spec2Model ----
(***************************************************************************)
(* A model of the Nesium emulation core: the frame drivers, the 6502 CPU   *)
(* step and interrupt entry, the PPU dot clock, the APU frame sequencer    *)
(* and DMC reader, the memory bus and the cartridge mappers.               *)
(*                                                                         *)
(* Each component is a record whose fields carry the names of the Rust     *)
(* struct fields; each method is an operator from records to records, and  *)
(* the actions compose them in the order the frame driver calls them.      *)
(***************************************************************************)
EXTENDS Integers, Naturals, Sequences, FiniteSets, TLC

VARIABLES
    cpu,    \* Cpu (src/src/cpu.rs)
    ppu,    \* Ppu (src/src/ppu.rs)
    apu,    \* Apu (src/src/apu.rs)
    cart,   \* Cartridge and its mapper (src/src/cartridge.rs)
    bus,    \* MemoryBus: ram, prg_ram, open_bus (src/src/memory.rs)
    drv,    \* the frame driver: which one, its counters, its position
    ev      \* what the last action did (observation only)

vars == <<cpu, ppu, apu, cart, bus, drv, ev>>

---------------------------------------------------------------------------
(* Bit arithmetic on machine words.                                        *)

Pow2(k) == 2 ^ k

Bit(v, k) == (v \div Pow2(k)) % 2

RECURSIVE And(_, _)
And(a, b) ==
    IF a = 0 \/ b = 0 THEN 0
    ELSE (a % 2) * (b % 2) + 2 * And(a \div 2, b \div 2)

Or(a, b) == a + b - And(a, b)

Xor(a, b) == a + b - 2 * And(a, b)

\* !m on a u8
Not8(m) == 255 - m

\* u8 / u16 wrapping arithmetic
Wrap8(v) == v % 256

Wrap16(v) == v % 65536

\* A sparse array: the cells written so far, every other cell at its default.
At(arr, i, default) == IF i \in DOMAIN arr THEN arr[i] ELSE default

Put(arr, i, v) == [k \in DOMAIN arr \cup {i} |-> IF k = i THEN v ELSE arr[k]]

Empty == [k \in {} |-> 0]

---------------------------------------------------------------------------
(* Program constants.                                                      *)

PPU_CYCLES_PER_FRAME == 89342

FLAG_C == 1
FLAG_Z == 2
FLAG_I == 4
FLAG_D == 8
FLAG_B == 16
FLAG_U == 32
FLAG_V == 64
FLAG_N == 128

---------------------------------------------------------------------------
(* Cartridge images.  prg_banks and chr_banks are header bytes 4 and 5.    *)

PrgLen(c) == c.prg_banks * 16384

ChrLen(c) == c.chr_banks * 8192

\* The byte at index i of the PRG ROM image: an image whose every 8 KiB
\* bank differs from the others and whose bytes are almost all non-zero.
PrgRomByte(i) == (i * 3 + (i \div 8192) + 1) % 256

\* The byte at index i of the CHR ROM image.
ChrRomByte(i) == (i * 5 + (i \div 1024) + 2) % 256

---------------------------------------------------------------------------
(* ROM images and programs.  The vectors of every image are the same; the   *)
(* code of a program is not part of the image function: no modelled         *)
(* program reads its own code as data.                                      *)

NMI_VECTOR == 250 * 256
RESET_VECTOR == 128 * 256
IRQ_VECTOR == 252 * 256

\* The byte at index i of the PRG ROM of cartridge c
PrgRom(c, i) ==
    LET v == i - (PrgLen(c) - 6)
    IN  CASE v = 0 -> NMI_VECTOR % 256   [] v = 1 -> NMI_VECTOR \div 256
          [] v = 2 -> RESET_VECTOR % 256 [] v = 3 -> RESET_VECTOR \div 256
          [] v = 4 -> IRQ_VECTOR % 256   [] v = 5 -> IRQ_VECTOR \div 256
          [] OTHER -> PrgRomByte(i)


\* next_power_of_2
next_power_of_2(n) ==
    LET p[k \in 0..20] == IF Pow2(k) >= n THEN Pow2(k) ELSE p[k + 1]
    IN  IF n = 0 THEN 1 ELSE p[0]

---------------------------------------------------------------------------
(* Mapper 4 (MMC3): the scanline IRQ counter, the PRG bank registers (R6    *)
(* and R7 of bank_data) and the mirroring register.  The CHR bank registers *)
(* (R0..R5, chr_inversion) are outside the model.                           *)

\* clock_irq raising the flag only when a decrement reaches zero, not when
\* a reload does
clock_irq_on_decrement(m) ==
    IF m.irq_counter = 0 \/ m.irq_reload
    THEN [m EXCEPT !.irq_counter = m.irq_latch, !.irq_reload = FALSE]
    ELSE [m EXCEPT !.irq_counter = m.irq_counter - 1,
                   !.irq_pending = m.irq_pending
                                   \/ (m.irq_counter = 1 /\ m.irq_enabled)]

\* Mmc3Mapper::clock_irq
clock_irq(m) ==
    LET m1 == IF m.irq_counter = 0 \/ m.irq_reload
              THEN [m EXCEPT !.irq_counter = m.irq_latch, !.irq_reload = FALSE]
              ELSE [m EXCEPT !.irq_counter = m.irq_counter - 1]
    IN  IF m1.irq_counter = 0 /\ m1.irq_enabled
        THEN [m1 EXCEPT !.irq_pending = TRUE]
        ELSE m1

\* Mmc3Mapper::update_prg_banks
Mmc3_update_prg_banks(m) ==
    LET second_last == IF m.prg_rom_size >= 16384 THEN m.prg_rom_size - 16384 ELSE 0
        last == IF m.prg_rom_size >= 8192 THEN m.prg_rom_size - 8192 ELSE 0
        r6 == And(m.r6, m.prg_clamp) * 8192
        r7 == And(m.r7, m.prg_clamp) * 8192
        bound(o) == IF m.prg_rom_size > 0
                    THEN [i \in 1..4 |-> o[i] % m.prg_rom_size] ELSE o
    IN  [m EXCEPT !.prg_bank_offsets =
                      bound(IF m.prg_mode THEN <<second_last, r7, r6, last>>
                            ELSE <<r6, r7, second_last, last>>)]

\* Mmc3Mapper::cpu_write (addr & 0xE001): bank select, bank data, mirroring
\* and the IRQ registers
Mmc3_cpu_write(m, addr, value) ==
    LET m0  == [m EXCEPT !.mirroring_changed_flag = FALSE]
        reg == And(addr, 57345)
    IN  IF addr < 32768 THEN m0
        ELSE IF reg = 32768 THEN
            Mmc3_update_prg_banks([m0 EXCEPT !.bank_select = And(value, 7),
                                             !.prg_mode = And(value, 64) # 0])
        ELSE IF reg = 32769 THEN
            IF m0.bank_select = 6 THEN Mmc3_update_prg_banks([m0 EXCEPT !.r6 = value])
            ELSE IF m0.bank_select = 7 THEN Mmc3_update_prg_banks([m0 EXCEPT !.r7 = value])
            ELSE m0
        ELSE IF reg = 40960 THEN
            IF m0.mirroring # "FourScreen"
            THEN LET new_mirroring == IF And(value, 1) # 0 THEN "Horizontal" ELSE "Vertical"
                 IN  IF new_mirroring # m0.mirroring
                     THEN [m0 EXCEPT !.mirroring = new_mirroring,
                                     !.mirroring_changed_flag = TRUE]
                     ELSE m0
            ELSE m0
        ELSE IF reg = 49152 THEN [m0 EXCEPT !.irq_latch = value]
        ELSE IF reg = 49153 THEN [m0 EXCEPT !.irq_counter = 0, !.irq_reload = TRUE]
        ELSE IF reg = 57344 THEN [m0 EXCEPT !.irq_enabled = FALSE, !.irq_pending = FALSE]
        ELSE IF reg = 57345 THEN [m0 EXCEPT !.irq_enabled = TRUE]
        ELSE m0

\* Mmc3Mapper::new
Mmc3_new(mirroring, prg_banks) ==
    LET prg_rom_size == prg_banks * 16384
        prg_banks_8k == prg_rom_size \div 8192
    IN  [kind |-> "Mmc3", mirroring |-> mirroring, mirroring_changed_flag |-> FALSE,
         irq_latch |-> 0, irq_counter |-> 0, irq_reload |-> FALSE,
         irq_enabled |-> FALSE, irq_pending |-> FALSE,
         prg_rom_size |-> prg_rom_size,
         prg_bank_offsets |->
             <<0, 0, IF prg_rom_size >= 16384 THEN prg_rom_size - 16384 ELSE 0,
               IF prg_rom_size >= 8192 THEN prg_rom_size - 8192 ELSE 0>>,
         bank_select |-> 0, prg_mode |-> FALSE, r6 |-> 0, r7 |-> 0,
         prg_clamp |-> IF prg_banks_8k > 0 THEN Wrap8(next_power_of_2(prg_banks_8k) - 1)
                       ELSE 0]

\* NromMapper::new
Nrom_new(mirroring) == [kind |-> "Nrom", mirroring |-> mirroring]

\* CnromMapper::new
Cnrom_new(mirroring, has_chr_ram, chr_banks) ==
    [kind |-> "Cnrom", mirroring |-> mirroring, has_chr_ram |-> has_chr_ram,
     chr_bank |-> 0, chr_banks |-> IF has_chr_ram THEN 0 ELSE Wrap8(chr_banks)]

\* CnromMapper::cpu_write
Cnrom_cpu_write(m, addr, value) ==
    IF addr >= 32768 /\ ~m.has_chr_ram
    THEN [m EXCEPT !.chr_bank = And(value, IF m.chr_banks > 4 THEN 15 ELSE 3)]
    ELSE m

\* UxromMapper::new
Uxrom_new(mirroring, prg_banks) ==
    [kind |-> "Uxrom", mirroring |-> mirroring, prg_bank |-> 0,
     prg_banks |-> Wrap8(prg_banks)]

\* UxromMapper::cpu_write
Uxrom_cpu_write(m, addr, value) ==
    IF addr >= 32768 THEN [m EXCEPT !.prg_bank = Wrap8(And(value, 7) % m.prg_banks)]
    ELSE m

---------------------------------------------------------------------------
(* The Mapper trait as Cartridge dispatches it.                            *)

\* Mapper::clock_scanline (default: nothing; MMC3: clock_irq)
clock_scanline(c) ==
    IF c.mapper.kind = "Mmc3" THEN [c EXCEPT !.mapper = clock_irq(c.mapper)] ELSE c

\* Mapper::irq_pending (default: false)
irq_pending(c) == IF c.mapper.kind = "Mmc3" THEN c.mapper.irq_pending ELSE FALSE

\* Mapper::acknowledge_irq (default: nothing)
acknowledge_irq(c) ==
    IF c.mapper.kind = "Mmc3" THEN [c EXCEPT !.mapper.irq_pending = FALSE] ELSE c

\* Mapper::mirroring_changed (default: false)
mirroring_changed(m) ==
    IF m.kind \in {"Mmc3", "Mmc1"} THEN m.mirroring_changed_flag ELSE FALSE

---------------------------------------------------------------------------
(* Mapper 1 (MMC1): the serial shift register and the control register.    *)

REG_INIT == 32

\* Mmc1Mapper::update_prg_banks
update_prg_banks(m) ==
    LET bound(r) == IF r.prg_rom_size > 0
                    THEN [r EXCEPT !.prg_bank1_offset = r.prg_bank1_offset % r.prg_rom_size,
                                   !.prg_bank2_offset = r.prg_bank2_offset % r.prg_rom_size]
                    ELSE r
    IN  bound(CASE m.prg_mode \in {0, 1} ->
                     [m EXCEPT !.prg_bank1_offset = 16384 * And(m.prg_reg, Not8(1)),
                               !.prg_bank2_offset = 16384 * And(m.prg_reg, Not8(1)) + 16384]
                [] m.prg_mode = 2 ->
                     [m EXCEPT !.prg_bank1_offset = 16384 * And(m.prg_reg, 16),
                               !.prg_bank2_offset = 16384 * m.prg_reg]
                [] OTHER ->
                     [m EXCEPT !.prg_bank1_offset = 16384 * m.prg_reg,
                               !.prg_bank2_offset =
                                   IF m.prg_banks > 16
                                   THEN ((IF And(m.prg_reg, 16) # 0 THEN 1 ELSE 0) + 1)
                                            * 262144 - 16384
                                   ELSE (IF m.prg_banks > 0 THEN m.prg_banks - 1 ELSE 0)
                                            * 16384])

\* Mmc1Mapper::update_chr_banks
update_chr_banks(m) ==
    LET chr_rom_size == m.chr_banks * 8192
        bound(r) == IF chr_rom_size > 0
                    THEN [r EXCEPT !.chr_bank1_offset = r.chr_bank1_offset % chr_rom_size,
                                   !.chr_bank2_offset = r.chr_bank2_offset % chr_rom_size]
                    ELSE r
    IN  IF m.has_chr_ram \/ m.chr_banks = 0
        THEN [m EXCEPT !.chr_bank1_offset = 0, !.chr_bank2_offset = 4096]
        ELSE IF m.chr_mode = 1
        THEN bound([m EXCEPT !.chr_bank1_offset = 4096 * m.chr1_reg,
                             !.chr_bank2_offset = 4096 * m.chr2_reg])
        ELSE bound([m EXCEPT !.chr_bank1_offset = 4096 * And(m.chr1_reg, Not8(1)),
                             !.chr_bank2_offset = 4096 * And(m.chr1_reg, Not8(1)) + 4096])

\* Mmc1Mapper::new
Mmc1_new(mirroring, has_chr_ram, prg_banks, chr_banks) ==
    update_chr_banks(update_prg_banks(
        [kind |-> "Mmc1", mirroring |-> mirroring, mirroring_changed_flag |-> FALSE,
         has_chr_ram |-> has_chr_ram,
         prg_banks |-> prg_banks,
         chr_banks |-> IF has_chr_ram THEN 0 ELSE chr_banks,
         prg_rom_size |-> prg_banks * 16384,
         shift_reg |-> REG_INIT, chr_mode |-> 0, prg_mode |-> 3,
         prg_reg |-> 0, chr1_reg |-> 0, chr2_reg |-> 0,
         prg_clamp |-> IF prg_banks > 0 THEN Wrap8(next_power_of_2(prg_banks) - 1) ELSE 0,
         chr_clamp |-> IF (~has_chr_ram) /\ chr_banks > 0
                       THEN Wrap8(next_power_of_2(chr_banks * 2) - 1) ELSE 0,
         prg_bank1_offset |-> 0,
         prg_bank2_offset |-> (IF prg_banks > 0 THEN prg_banks - 1 ELSE 0) * 16384,
         chr_bank1_offset |-> 0, chr_bank2_offset |-> 4096]))

\* Mmc1Mapper::cpu_write: the register a completed 5-bit value is routed to
Mmc1_commit(m, addr, reg_value) ==
    LET sel == And(addr, 57344)
        high(r) == And(Or(And(r.prg_reg, Not8(16)), And(reg_value, 16)), r.prg_clamp)
        reset(r) == [r EXCEPT !.shift_reg = REG_INIT]
    IN  IF sel = 32768 THEN
            LET mirroring_bits == And(reg_value, 3)
                new_mirroring  == CASE mirroring_bits = 0 -> "OneScreenLower"
                                    [] mirroring_bits = 1 -> "OneScreenUpper"
                                    [] mirroring_bits = 2 -> "Vertical"
                                    [] OTHER              -> "Horizontal"
                control(r) == [r EXCEPT !.chr_mode = And(reg_value \div 16, 1),
                                        !.prg_mode = And(reg_value \div 4, 3)]
            IN  reset(update_chr_banks(update_prg_banks(control(
                    IF new_mirroring # m.mirroring
                    THEN [m EXCEPT !.mirroring = new_mirroring,
                                   !.mirroring_changed_flag = TRUE]
                    ELSE m))))
        ELSE IF sel = 40960 THEN
            IF m.has_chr_ram
            THEN reset(update_prg_banks([m EXCEPT !.prg_reg = high(m)]))
            ELSE reset(update_chr_banks(
                     [m EXCEPT !.chr1_reg = And(And(reg_value, 31), m.chr_clamp)]))
        ELSE IF sel = 49152 THEN
            IF m.chr_mode = 0 THEN reset(m)
            ELSE IF m.has_chr_ram
            THEN reset(update_prg_banks([m EXCEPT !.prg_reg = high(m)]))
            ELSE reset(update_chr_banks(
                     [m EXCEPT !.chr2_reg = And(And(reg_value, 31), m.chr_clamp)]))
        ELSE
            reset(update_prg_banks(
                [m EXCEPT !.prg_reg = And(Or(And(m.prg_reg, Not8(15)), And(reg_value, 15)),
                                          m.prg_clamp)]))

\* Mmc1Mapper::cpu_write
Mmc1_cpu_write(m, addr, value) ==
    LET shift(r) == [r EXCEPT !.shift_reg = Or(r.shift_reg \div 2, And(value, 1) * 32)]
        route(r) == IF And(r.shift_reg, 1) = 0 THEN r
                    ELSE Mmc1_commit(r, addr, r.shift_reg \div 2)
        write(r) == IF addr < 32768 THEN r
                    ELSE IF And(value, 128) # 0
                    THEN update_prg_banks([r EXCEPT !.shift_reg = REG_INIT, !.prg_mode = 3])
                    ELSE route(shift(r))
    IN  write([m EXCEPT !.mirroring_changed_flag = FALSE])

---------------------------------------------------------------------------
(* PPU (src/src/ppu.rs).                                                    *)

\* Ppu::new
Ppu_new ==
    [ctrl |-> 0, mask |-> 0, status |-> 0, oam_addr |-> 0,
     vram |-> Empty, palette |-> Empty, oam |-> Empty,
     mirroring |-> "Horizontal", vram_read_buffer |-> 255,
     scanline |-> -1, cycle |-> 0, frame |-> 0,
     nmi_occurred |-> FALSE, nmi_output |-> FALSE,
     vram_addr_temp |-> 0, vram_addr |-> 0, fine_x |-> 0, write_toggle |-> FALSE,
     secondary_oam |-> [i \in 0..31 |-> 0], sprite_count |-> 0,
     sprite_positions |-> [i \in 0..7 |-> 0],
     sprite_patterns_low |-> [i \in 0..7 |-> 0],
     sprite_patterns_high |-> [i \in 0..7 |-> 0],
     sprite_attributes |-> [i \in 0..7 |-> 0]]

\* Ppu::set_mirroring
set_mirroring(p, mirroring) == [p EXCEPT !.mirroring = mirroring]

\* Ppu::increment_vram_addr
increment_vram_addr(p) ==
    LET increment == IF And(p.ctrl, 4) # 0 THEN 32 ELSE 1
    IN  [p EXCEPT !.vram_addr = And(Wrap16(p.vram_addr + increment), 32767)]

\* Ppu::read_vram, the nametable arm: the VRAM index of address addr
read_vram_index(mirroring, addr) ==
    LET nt_addr == And(addr, 12287)
        base    == And(nt_addr, 1023)
    IN  CASE mirroring = "Horizontal" -> IF nt_addr >= 10240 THEN base + 1024 ELSE base
          [] mirroring = "Vertical"   -> IF And(nt_addr, 1024) # 0 THEN base + 1024 ELSE base
          [] mirroring = "FourScreen" -> IF nt_addr >= 10240 THEN base + 1024 ELSE base
          [] OTHER                    -> And(nt_addr, 1023)

\* Ppu::write_vram, the nametable arm: the VRAM index of address addr
write_vram_index(mirroring, addr) ==
    LET nt_addr == And(addr, 12287)
        base    == And(nt_addr, 1023)
    IN  CASE mirroring = "Horizontal" -> IF nt_addr >= 10240 THEN base + 1024 ELSE base
          [] mirroring = "Vertical"   -> IF And(nt_addr, 1024) # 0 THEN base + 1024 ELSE base
          [] mirroring = "FourScreen" -> IF nt_addr >= 10240 THEN base + 1024 ELSE base
          [] OTHER                    -> And(nt_addr, 1023)

\* the palette index both read_vram and write_vram compute
palette_index(addr) ==
    LET index == And(addr, 31)
    IN  IF And(index, 3) = 0 THEN And(index, 65519) ELSE index

\* Ppu::read_vram; chr is the byte the cartridge returns for a pattern address
read_vram(p, addr0, chr) ==
    LET addr == And(addr0, 16383)
    IN  IF addr <= 8191 THEN chr
        ELSE IF addr <= 16127 THEN At(p.vram, read_vram_index(p.mirroring, addr), 255)
        ELSE At(p.palette, palette_index(addr), 255)

\* Ppu::write_vram
write_vram(p, addr0, value) ==
    LET addr == And(addr0, 16383)
    IN  IF addr <= 8191 THEN p
        ELSE IF addr <= 16127
        THEN [p EXCEPT !.vram = Put(p.vram, write_vram_index(p.mirroring, addr), value)]
        ELSE LET index == palette_index(addr)
                 pal1  == Put(p.palette, index, value)
             IN  [p EXCEPT !.palette = IF And(index, 3) = 0
                                       THEN Put(pal1, Xor(index, 16), value)
                                       ELSE pal1]

\* Ppu::write_register
Ppu_write_register(p, addr, value) ==
    LET reg == And(addr, 8199)
    IN  CASE reg = 8192 ->
                [p EXCEPT !.ctrl = value,
                          !.vram_addr_temp = Or(And(p.vram_addr_temp, 62463),
                                                And(value, 3) * 1024)]
          [] reg = 8193 -> [p EXCEPT !.mask = value]
          [] reg = 8195 -> [p EXCEPT !.oam_addr = value]
          [] reg = 8196 ->
                [p EXCEPT !.oam = Put(p.oam, p.oam_addr, value),
                          !.oam_addr = Wrap8(p.oam_addr + 1)]
          [] reg = 8197 ->
                IF ~p.write_toggle
                THEN [p EXCEPT !.fine_x = And(value, 7),
                               !.vram_addr_temp = Or(And(p.vram_addr_temp, 65504), value \div 8),
                               !.write_toggle = TRUE]
                ELSE [p EXCEPT !.vram_addr_temp =
                                   Or(Or(And(p.vram_addr_temp, 35871), And(value, 7) * 4096),
                                      (value \div 8) * 32),
                               !.write_toggle = FALSE]
          [] reg = 8198 ->
                IF ~p.write_toggle
                THEN [p EXCEPT !.vram_addr_temp = Or(And(p.vram_addr_temp, 255),
                                                     And(value, 63) * 256),
                               !.write_toggle = TRUE]
                ELSE LET t == Or(And(p.vram_addr_temp, 65280), value)
                     IN  [p EXCEPT !.vram_addr_temp = t, !.vram_addr = t,
                                   !.write_toggle = FALSE]
          [] reg = 8199 ->
                increment_vram_addr(write_vram(p, And(p.vram_addr, 16383), value))
          [] OTHER -> p

\* Ppu::read_register: the PPU after the read and the byte returned; chr is
\* the byte chr_read returns for the pattern address in vram_addr
Ppu_read_register(p, addr, chr) ==
    LET reg == And(addr, 8199)
    IN  CASE reg = 8194 ->
                [ppu |-> [p EXCEPT !.status = And(p.status, 127), !.write_toggle = FALSE],
                 value |-> p.status]
          [] reg = 8199 ->
                LET a == And(p.vram_addr, 16383)
                IN  IF a >= 16128
                    THEN [ppu |-> increment_vram_addr(
                                     [p EXCEPT !.vram_read_buffer =
                                                   read_vram(p, And(a, 12287), chr)]),
                          value |-> read_vram(p, a, chr)]
                    ELSE [ppu |-> increment_vram_addr(
                                     [p EXCEPT !.vram_read_buffer = read_vram(p, a, chr)]),
                          value |-> p.vram_read_buffer]
          [] OTHER -> [ppu |-> p, value |-> 0]

\* Ppu::increment_y
increment_y(v) ==
    IF And(v, 28672) # 28672 THEN v + 4096
    ELSE LET v1 == And(v, 36863)
             y  == And(v1, 992) \div 32
             v2 == IF y = 29 THEN Xor(v1, 2048) ELSE v1
             y2 == IF y = 29 \/ y = 31 THEN 0 ELSE y + 1
         IN  Or(And(v2, 64543), y2 * 32)

\* Ppu::copy_x
copy_x(v, t) == Or(And(v, 64480), And(t, 1055))

\* Ppu::copy_y
copy_y(v, t) == Or(And(v, 33823), And(t, 31712))

\* Ppu::step, the coarse X increment after a visible pixel (dots 1..256)
coarse_x_step(p) ==
    IF And(p.mask, 8) # 0 /\ (p.fine_x + (p.cycle - 1)) % 8 = 7
    THEN IF And(p.vram_addr, 31) = 31
         THEN Xor(And(p.vram_addr, 65504), 1024)
         ELSE p.vram_addr + 1
    ELSE p.vram_addr

\* Ppu::step, the part before the dot counter advances: flags and scroll.
\* The background pipeline (tile fetches, shifters, framebuffer, status bit
\* 6) is outside the model; the sprite unit is Ppu_step_sprites.
Ppu_step_dot(p0) ==
    LET p == [p0 EXCEPT !.nmi_occurred = FALSE]
        rendering == And(p.mask, 24) # 0
    IN  IF p.scanline = -1
        THEN LET p1 == IF p.cycle = 1
                       THEN [p EXCEPT !.status = And(p.status, 31), !.nmi_output = FALSE]
                       ELSE p
             IN  IF p.cycle >= 1 /\ p.cycle <= 256
                 THEN IF p.cycle = 256 /\ rendering
                      THEN [p1 EXCEPT !.vram_addr = increment_y(p.vram_addr)]
                      ELSE p1
                 ELSE IF p.cycle = 257
                 THEN IF rendering
                      THEN [p1 EXCEPT !.vram_addr = copy_x(p.vram_addr, p.vram_addr_temp)]
                      ELSE p1
                 ELSE IF p.cycle >= 280 /\ p.cycle <= 304
                 THEN IF rendering
                      THEN [p1 EXCEPT !.vram_addr = copy_y(p.vram_addr, p.vram_addr_temp)]
                      ELSE p1
                 ELSE p1
        ELSE IF p.scanline >= 0 /\ p.scanline < 240
        THEN IF p.cycle >= 1 /\ p.cycle <= 256
             THEN [p EXCEPT !.vram_addr = coarse_x_step(p)]
             ELSE IF p.cycle = 257
             THEN IF And(p.mask, 8) # 0
                  THEN [p EXCEPT !.vram_addr = increment_y(p.vram_addr)]
                  ELSE p
             ELSE IF p.cycle = 258
             THEN IF rendering
                  THEN [p EXCEPT !.vram_addr = copy_x(p.vram_addr, p.vram_addr_temp)]
                  ELSE p
             ELSE p
        ELSE IF p.scanline = 241 /\ p.cycle = 1
        THEN [p EXCEPT !.status = Or(p.status, 128),
                       !.nmi_occurred = And(p.ctrl, 128) # 0]
        ELSE p

\* Ppu::step without the odd-frame skip: every line has 341 dots
Ppu_step_no_skip(p0) ==
    LET advance(p1) ==
            LET cycle1 == p1.cycle + 1
                wrap == cycle1 > 340
                scanline1 == IF wrap THEN p1.scanline + 1 ELSE p1.scanline
                newframe == scanline1 > 260
                out == p1.nmi_occurred /\ And(p1.ctrl, 128) # 0
            IN  [ppu |-> [p1 EXCEPT !.cycle = IF wrap THEN 0 ELSE cycle1,
                                    !.scanline = IF newframe THEN -1 ELSE scanline1,
                                    !.frame = IF newframe THEN p1.frame + 1 ELSE p1.frame,
                                    !.nmi_output = out],
                 nmi |-> out /\ ~p0.nmi_output, skip |-> FALSE]
    IN  advance(Ppu_step_dot(p0))

\* Ppu::step: the PPU after one dot, the value returned (the NMI edge), and
\* whether this step skipped the last dot of the pre-render line
Ppu_step(p0) ==
    LET advance(p1) ==
            LET cycle1 == p1.cycle + 1
                rendering_enabled == And(p1.mask, 24) # 0
                is_odd_frame == p1.frame % 2 # 0
                skip_cycle == p1.scanline = -1 /\ cycle1 = 340 /\ rendering_enabled
                              /\ is_odd_frame
                wrap == skip_cycle \/ cycle1 > 340
                scanline1 == IF wrap THEN p1.scanline + 1 ELSE p1.scanline
                newframe == scanline1 > 260
                out == p1.nmi_occurred /\ And(p1.ctrl, 128) # 0
            IN  [ppu |-> [p1 EXCEPT !.cycle = IF wrap THEN 0 ELSE cycle1,
                                    !.scanline = IF newframe THEN -1 ELSE scanline1,
                                    !.frame = IF newframe THEN p1.frame + 1 ELSE p1.frame,
                                    !.nmi_output = out],
                 nmi |-> out /\ ~p0.nmi_output, skip |-> skip_cycle]
    IN  advance(Ppu_step_dot(p0))

---------------------------------------------------------------------------
(* APU (src/src/apu.rs): the frame sequencer, the DMC channel and the      *)
(* timer and LFSR of the noise channel.  The pulse and triangle channels,   *)
(* the envelopes and the sample output are outside the model.               *)

DMC_PERIOD_TABLE ==
    <<428, 380, 340, 320, 286, 254, 226, 214, 190, 160, 142, 128, 106, 84, 72, 54>>

\* DmcChannel::new
DmcChannel_new ==
    [enabled |-> FALSE, loop_flag |-> FALSE, irq_enabled |-> FALSE,
     irq_occurred |-> FALSE, output_level |-> 0,
     sample_address |-> 49152, sample_length |-> 1, current_address |-> 49152,
     bytes_remaining |-> 0, sample_buffer |-> 0, sample_buffer_empty |-> TRUE,
     shift_register |-> 0, bits_remaining |-> 8, silence |-> TRUE,
     rate |-> DMC_PERIOD_TABLE[1], rate_counter |-> DMC_PERIOD_TABLE[1]]

NOISE_PERIOD_TABLE ==
    <<4, 8, 16, 32, 64, 96, 128, 160, 202, 254, 380, 508, 762, 1016, 2034, 4068>>

\* NoiseChannel::new: timer, LFSR and mode (length counter and envelope are
\* outside the model)
NoiseChannel_new ==
    [timer |-> 0, timer_counter |-> 0, shift_register |-> 1, mode |-> FALSE]

\* NoiseChannel::clock_timer with an LFSR that shifts without feedback
NoiseChannel_clock_timer_no_feedback(n) ==
    IF n.timer_counter = 0
    THEN [n EXCEPT !.timer_counter = n.timer,
                   !.shift_register = n.shift_register \div 2]
    ELSE [n EXCEPT !.timer_counter = n.timer_counter - 1]

\* NoiseChannel::clock_timer: when the timer expires the 15-bit LFSR shifts
\* right and bit 14 takes bit 0 XOR bit 6 (mode 1) or bit 0 XOR bit 1
NoiseChannel_clock_timer(n) ==
    IF n.timer_counter = 0
    THEN LET feedback == IF n.mode
                         THEN Xor(Bit(n.shift_register, 0), Bit(n.shift_register, 6))
                         ELSE Xor(Bit(n.shift_register, 0), Bit(n.shift_register, 1))
         IN  [n EXCEPT !.timer_counter = n.timer,
                       !.shift_register =
                           Wrap16(Or(n.shift_register \div 2, feedback * 16384))]
    ELSE [n EXCEPT !.timer_counter = n.timer_counter - 1]

\* Apu::new
Apu_new ==
    [dmc |-> DmcChannel_new, cycle_count |-> 0, frame_counter_mode |-> FALSE,
     frame_counter_interrupt |-> FALSE, irq_inhibit |-> FALSE,
     reset_sequencer |-> FALSE, noise |-> NoiseChannel_new]

\* DmcChannel::clock, the memory reader; byte is what cpu_read returns for
\* current_address
Dmc_reader(d, byte) ==
    IF d.enabled /\ d.sample_buffer_empty /\ d.bytes_remaining > 0
    THEN LET next_address == IF d.current_address = 65535 THEN 32768
                             ELSE d.current_address + 1
             remaining == d.bytes_remaining - 1
             d1 == [d EXCEPT !.sample_buffer = byte, !.sample_buffer_empty = FALSE,
                             !.current_address = next_address,
                             !.bytes_remaining = remaining]
         IN  IF remaining = 0
             THEN IF d.loop_flag
                  THEN [dmc |-> [d1 EXCEPT !.current_address = d.sample_address,
                                           !.bytes_remaining = d.sample_length],
                        irq |-> FALSE]
                  ELSE IF d.irq_enabled
                  THEN [dmc |-> [d1 EXCEPT !.irq_occurred = TRUE], irq |-> TRUE]
                  ELSE [dmc |-> d1, irq |-> FALSE]
             ELSE [dmc |-> d1, irq |-> FALSE]
    ELSE [dmc |-> d, irq |-> FALSE]

\* DmcChannel::clock, the output unit timer
Dmc_output(d) ==
    IF d.rate_counter = 0
    THEN LET level == IF d.silence THEN d.output_level
                      ELSE IF And(d.shift_register, 1) # 0
                      THEN (IF d.output_level <= 125 THEN d.output_level + 2
                            ELSE d.output_level)
                      ELSE (IF d.output_level >= 2 THEN d.output_level - 2
                            ELSE d.output_level)
             bits == d.bits_remaining - 1
             d1 == [d EXCEPT !.rate_counter = d.rate, !.output_level = level,
                             !.shift_register = d.shift_register \div 2,
                             !.bits_remaining = bits]
         IN  IF bits = 0
             THEN IF d.sample_buffer_empty
                  THEN [d1 EXCEPT !.bits_remaining = 8, !.silence = TRUE]
                  ELSE [d1 EXCEPT !.bits_remaining = 8, !.silence = FALSE,
                                  !.shift_register = d.sample_buffer,
                                  !.sample_buffer_empty = TRUE]
             ELSE d1
    ELSE [d EXCEPT !.rate_counter = d.rate_counter - 1]

\* DmcChannel::clock
Dmc_clock(d, byte) ==
    LET output(r) == [dmc |-> Dmc_output(r.dmc), irq |-> r.irq]
    IN  output(Dmc_reader(d, byte))

\* Apu::read_register: the APU after the read and the byte returned
Apu_read_register(a, addr) ==
    IF addr = 16405
    THEN [apu |-> [a EXCEPT !.frame_counter_interrupt = FALSE],
          value |-> (IF a.dmc.bytes_remaining > 0 THEN 16 ELSE 0)
                    + (IF a.frame_counter_interrupt THEN 64 ELSE 0)
                    + (IF a.dmc.irq_occurred THEN 128 ELSE 0)]
    ELSE [apu |-> a, value |-> 0]

\* Apu::write_register, the DMC, status and frame counter registers
Apu_write_register(a, addr, value) ==
    CASE addr = 16398 ->
            [a EXCEPT !.noise.mode = And(value, 128) # 0,
                      !.noise.timer = NOISE_PERIOD_TABLE[And(value, 15) + 1]]
      [] addr = 16400 ->
            LET irq_enabled == And(value, 128) # 0
            IN  [a EXCEPT !.dmc.irq_enabled = irq_enabled,
                          !.dmc.loop_flag = And(value, 64) # 0,
                          !.dmc.rate = DMC_PERIOD_TABLE[And(value, 15) + 1],
                          !.dmc.irq_occurred = IF irq_enabled THEN a.dmc.irq_occurred
                                               ELSE FALSE]
      [] addr = 16401 -> [a EXCEPT !.dmc.output_level = And(value, 127)]
      [] addr = 16402 -> [a EXCEPT !.dmc.sample_address = Or(49152, value * 64)]
      [] addr = 16403 -> [a EXCEPT !.dmc.sample_length = Or(value * 16, 1)]
      [] addr = 16405 ->
            LET enabled == And(value, 16) # 0
                restart == enabled /\ a.dmc.bytes_remaining = 0
            IN  [a EXCEPT !.dmc.enabled = enabled,
                          !.dmc.bytes_remaining =
                              IF ~enabled THEN 0
                              ELSE IF restart THEN a.dmc.sample_length
                              ELSE a.dmc.bytes_remaining,
                          !.dmc.current_address =
                              IF restart THEN a.dmc.sample_address
                              ELSE a.dmc.current_address,
                          !.dmc.irq_occurred = FALSE]
      [] addr = 16407 ->
            LET inhibit == And(value, 64) # 0
            IN  [a EXCEPT !.frame_counter_mode = And(value, 128) # 0,
                          !.irq_inhibit = inhibit,
                          !.frame_counter_interrupt =
                              IF inhibit THEN FALSE ELSE a.frame_counter_interrupt,
                          !.reset_sequencer = TRUE]
      [] OTHER -> a

\* Apu::step, one iteration of its loop; byte is what cpu_read returns for the
\* DMC's current address.  timer: the pulse and noise timers were clocked;
\* quarter: clock_quarter_frame was called.
Apu_cycle(a0, byte) ==
    LET sequencer(a2, irq) ==
            LET wrap == IF a2.frame_counter_mode THEN a2.cycle_count = 37281
                        ELSE a2.cycle_count = 29829
                fire == (~a2.frame_counter_mode) /\ a2.cycle_count = 29829
                        /\ ~a2.irq_inhibit
            IN  [apu |-> [a2 EXCEPT !.frame_counter_interrupt =
                                        IF fire THEN TRUE ELSE a2.frame_counter_interrupt,
                                    !.cycle_count = IF wrap THEN 1 ELSE a2.cycle_count + 1],
                 irq |-> irq \/ fire,
                 timer |-> a2.cycle_count % 2 = 1,
                 quarter |-> wrap \/ a2.cycle_count \in {7457, 14913, 22371}
                             \/ (a0.reset_sequencer /\ a0.frame_counter_mode)]
        dmc(a1, r) == sequencer([a1 EXCEPT !.dmc = r.dmc], r.irq)
        reset(a1) == dmc(a1, Dmc_clock(a1.dmc, byte))
    IN  reset(IF a0.reset_sequencer
              THEN [a0 EXCEPT !.reset_sequencer = FALSE, !.cycle_count = 0]
              ELSE a0)

---------------------------------------------------------------------------
(* Cartridge (src/src/cartridge.rs) and MemoryBus (src/src/memory.rs).      *)
(* A system value s is a record of the five components, cpu, ppu, apu,      *)
(* cart and bus, plus ev, the observations of the handler that is running.  *)

\* Cartridge::load, the mapper it constructs for a header
Cartridge_load(kind, mirroring, prg_banks, chr_banks) ==
    [mapper |-> CASE kind = "Nrom" -> Nrom_new(mirroring)
                  [] kind = "Mmc1" -> Mmc1_new(mirroring, chr_banks = 0, prg_banks, chr_banks)
                  [] kind = "Mmc3" -> Mmc3_new(mirroring, prg_banks)
                  [] kind = "Uxrom" -> Uxrom_new(mirroring, prg_banks)
                  [] kind = "Cnrom" -> Cnrom_new(mirroring, chr_banks = 0, chr_banks),
     mirroring |-> mirroring, prg_banks |-> prg_banks, chr_banks |-> chr_banks]

\* Mapper::cpu_read: the index into prg_rom the read of addr uses, the
\* remainders taken; -1 where the mapper returns 0xFF without indexing (MMC1
\* and MMC3 with an empty PRG ROM)
prg_rom_index(c, addr) ==
    CASE c.mapper.kind \in {"Nrom", "Cnrom"} ->
            IF PrgLen(c) = 16384 THEN (addr - 32768) % 16384 ELSE addr - 32768
      [] c.mapper.kind = "Mmc1" ->
            IF PrgLen(c) = 0 THEN -1
            ELSE IF addr < 49152
            THEN (c.mapper.prg_bank1_offset + And(addr, 16383)) % PrgLen(c)
            ELSE (c.mapper.prg_bank2_offset + And(addr, 16383)) % PrgLen(c)
      [] c.mapper.kind = "Mmc3" ->
            IF PrgLen(c) = 0 THEN -1
            ELSE (c.mapper.prg_bank_offsets[((addr - 32768) \div 8192) + 1]
                      + And(addr, 8191)) % PrgLen(c)
      [] c.mapper.kind = "Uxrom" ->
            IF addr < 49152
            THEN (((c.mapper.prg_bank * 16384) % PrgLen(c)) + (addr - 32768)) % PrgLen(c)
            ELSE ((((c.mapper.prg_banks - 1) * 16384) % PrgLen(c)) + (addr - 49152))
                     % PrgLen(c)

\* Cartridge::cpu_read
Cartridge_cpu_read(c, addr) ==
    LET byte(i) == IF i = -1 THEN 255 ELSE PrgRom(c, i)
    IN  byte(prg_rom_index(c, addr))

\* CnromMapper::ppu_read, the index into CHR ROM
Cnrom_ppu_index(m, addr) == m.chr_bank * 8192 + And(addr, 8191)

\* Cartridge::ppu_read, for NROM (NromMapper::ppu_read) and CNROM
\* (CnromMapper::ppu_read, which answers 0 for an index past the ROM)
Cartridge_ppu_read(c, b, addr) ==
    CASE c.mapper.kind = "Nrom" ->
            LET pattern_addr == And(addr, 8191)
            IN  IF c.chr_banks = 0 THEN At(b.chr_ram, pattern_addr, 0)
                ELSE ChrRomByte(pattern_addr % ChrLen(c))
      [] c.mapper.kind = "Cnrom" ->
            IF c.mapper.has_chr_ram THEN At(b.chr_ram, And(addr, 8191), 0)
            ELSE IF Cnrom_ppu_index(c.mapper, addr) < ChrLen(c)
            THEN ChrRomByte(Cnrom_ppu_index(c.mapper, addr))
            ELSE 0

\* Cartridge::cpu_write reporting no mirroring change
Cartridge_cpu_write_unreported(c, addr, value) ==
    LET written(m) == [cart |-> [c EXCEPT !.mapper = m], changed |-> FALSE]
    IN  written(CASE c.mapper.kind = "Mmc1" -> Mmc1_cpu_write(c.mapper, addr, value)
                  [] c.mapper.kind = "Mmc3" -> Mmc3_cpu_write(c.mapper, addr, value)
                  [] c.mapper.kind = "Uxrom" -> Uxrom_cpu_write(c.mapper, addr, value)
                  [] c.mapper.kind = "Cnrom" -> Cnrom_cpu_write(c.mapper, addr, value)
                  [] OTHER -> c.mapper)

\* Cartridge::cpu_write: the cartridge after the write, and whether the
\* mirroring changed
Cartridge_cpu_write(c, addr, value) ==
    LET written(m) == [cart |-> [c EXCEPT !.mapper = m],
                       changed |-> m.mirroring # c.mapper.mirroring
                                   \/ mirroring_changed(m)]
    IN  written(CASE c.mapper.kind = "Mmc1" -> Mmc1_cpu_write(c.mapper, addr, value)
                  [] c.mapper.kind = "Mmc3" -> Mmc3_cpu_write(c.mapper, addr, value)
                  [] c.mapper.kind = "Uxrom" -> Uxrom_cpu_write(c.mapper, addr, value)
                  [] c.mapper.kind = "Cnrom" -> Cnrom_cpu_write(c.mapper, addr, value)
                  [] OTHER -> c.mapper)

\* ControllerState::new; buttons holds the eight button fields, A in bit 0
ControllerState_new == [buttons |-> 0, shift_register |-> 0, read_count |-> 0]

\* ControllerState::latch
Controller_latch(c) == [c EXCEPT !.shift_register = c.buttons, !.read_count = 0]

\* ControllerState::read: the controller after the read and the bit returned
Controller_read(c, strobe_active) ==
    IF strobe_active THEN [c |-> c, bit |-> And(c.buttons, 1)]
    ELSE IF c.read_count < 8
    THEN [c |-> [c EXCEPT !.read_count = c.read_count + 1],
          bit |-> And(c.shift_register \div Pow2(c.read_count), 1)]
    ELSE [c |-> c, bit |-> 0]

\* Input::new
Input_new ==
    [controller1 |-> ControllerState_new, controller2 |-> ControllerState_new,
     strobe |-> FALSE]

\* Input::write
Input_write(i, value) ==
    LET new_strobe == And(value, 1) # 0
        latched(r) == IF i.strobe /\ ~new_strobe
                      THEN [r EXCEPT !.controller1 = Controller_latch(r.controller1),
                                     !.controller2 = Controller_latch(r.controller2)]
                      ELSE r
    IN  [latched(i) EXCEPT !.strobe = new_strobe]

\* Input::read: the input after the read and the bit returned
Input_read(i, port) ==
    LET first(r)  == [input |-> [i EXCEPT !.controller1 = r.c], bit |-> r.bit]
        second(r) == [input |-> [i EXCEPT !.controller2 = r.c], bit |-> r.bit]
    IN  IF port = 0 THEN first(Controller_read(i.controller1, i.strobe))
        ELSE second(Controller_read(i.controller2, i.strobe))

\* MemoryBus::new
MemoryBus_new ==
    [ram |-> Empty, prg_ram |-> Empty, chr_ram |-> Empty, open_bus |-> 64,
     input |-> Input_new]

\* MemoryBus::mirror_ram_addr
mirror_ram_addr(addr) == And(addr, 2047)

\* MemoryBus::trigger_oamdma: the byte copied to OAM[i]
oamdma_byte(b, page, i) ==
    LET page_addr == page * 256
    IN  IF page_addr + i <= 8191 THEN At(b.ram, mirror_ram_addr(page_addr + i), 255) ELSE 0

\* MemoryBus::trigger_oamdma: OAM after the copy, and the stall returned
trigger_oamdma(s, page, current_cycle_odd) ==
    LET stall == IF current_cycle_odd THEN 512 ELSE 513
    IN  [s EXCEPT !.ppu.oam = [i \in 0..255 |-> oamdma_byte(s.bus, page, i)],
                  !.ev.dma = TRUE, !.ev.dma_page = page, !.ev.dma_stall = stall]

\* The VRAM index a PPUDATA access (register 0x2007) of the CPU reads or
\* writes when vram_addr is a nametable address; -1 for any other access
nametable_index(p, addr, reading) ==
    LET a == And(p.vram_addr, 16383)
    IN  IF And(addr, 8199) = 8199 /\ a >= 8192 /\ a <= 16127
        THEN IF reading THEN read_vram_index(p.mirroring, a)
             ELSE write_vram_index(p.mirroring, a)
        ELSE -1

\* MemoryBus::read with the latch overwritten by every read
update_open_bus_always(addr, r) ==
    [s |-> [r.s EXCEPT !.bus.open_bus = r.value], value |-> r.value]

\* MemoryBus::read, the end: the open-bus latch takes the byte read, except
\* on reads of 0x4015, 0x4016 and 0x4017
update_open_bus(addr, r) ==
    [s |-> IF addr \notin {16405, 16406, 16407}
           THEN [r.s EXCEPT !.bus.open_bus = r.value] ELSE r.s,
     value |-> r.value]

\* MemoryBus::read: the system after the read (open bus, register side
\* effects) and the byte returned.
Bus_read(s, addr) ==
    LET ppu_read(p) ==
            [s |-> [s EXCEPT !.ppu = p.ppu,
                             !.ev.vram_index = nametable_index(s.ppu, addr, TRUE)],
             value |-> p.value]
        apu_read(a) ==
            [s |-> [s EXCEPT !.apu = a.apu],
             value |-> Or(And(a.value, 223), And(s.bus.open_bus, 32))]
        chr == IF And(addr, 8199) = 8199 /\ And(s.ppu.vram_addr, 16383) <= 8191
               THEN Cartridge_ppu_read(s.cart, s.bus, And(s.ppu.vram_addr, 16383))
               ELSE 0
        pad1_read(i) ==
            [s |-> [s EXCEPT !.bus.input = i.input, !.ev.pad_bit = i.bit],
             value |-> Or(And(s.bus.open_bus, 224), And(i.bit, 31))]
        pad2_read(a, i) ==
            [s |-> [s EXCEPT !.apu = a.apu, !.bus.input = i.input, !.ev.pad_bit = i.bit],
             value |-> Or(And(s.bus.open_bus, 224),
                          And(Or(a.value, And(i.bit, 31)), 31))]
    IN  update_open_bus(addr,
              CASE addr <= 8191 ->
                    [s |-> s, value |-> At(s.bus.ram, mirror_ram_addr(addr), 255)]
               [] addr >= 8192 /\ addr <= 16383 ->
                    ppu_read(Ppu_read_register(s.ppu, addr, chr))
               [] addr >= 16384 /\ addr <= 16403 ->
                    [s |-> s, value |-> 0]
               [] addr = 16404 -> [s |-> s, value |-> 64]
               [] addr = 16405 -> apu_read(Apu_read_register(s.apu, addr))
               [] addr = 16406 -> pad1_read(Input_read(s.bus.input, 0))
               [] addr = 16407 -> pad2_read(Apu_read_register(s.apu, 16405),
                                            Input_read(s.bus.input, 1))
               [] addr >= 16408 /\ addr <= 24575 ->
                    [s |-> s, value |-> s.bus.open_bus]
               [] addr >= 24576 /\ addr <= 32767 ->
                    [s |-> s, value |-> At(s.bus.prg_ram, addr - 24576, 0)]
               [] addr >= 32768 ->
                    [s |-> s, value |-> Cartridge_cpu_read(s.cart, addr)])

\* MemoryBus::write
Bus_write(s, addr, value) ==
    LET ram_write(w) ==
            [s EXCEPT !.bus.prg_ram = Put(s.bus.prg_ram, addr - 24576, value),
                      !.cart = w.cart]
        rom_write(w) ==
            [s EXCEPT !.cart = w.cart,
                      !.ppu = IF w.changed
                              THEN set_mirroring(s.ppu, w.cart.mapper.mirroring)
                              ELSE s.ppu]
    IN  CASE addr <= 8191 ->
                [s EXCEPT !.bus.ram = Put(s.bus.ram, mirror_ram_addr(addr), value)]
          [] addr >= 8192 /\ addr <= 16383 ->
                [s EXCEPT !.ppu = Ppu_write_register(s.ppu, addr, value),
                          !.ev.vram_index = nametable_index(s.ppu, addr, FALSE)]
          [] (addr >= 16384 /\ addr <= 16403) \/ addr = 16405 \/ addr = 16407 ->
                [s EXCEPT !.apu = Apu_write_register(s.apu, addr, value)]
          [] addr = 16404 -> s
          [] addr = 16406 -> [s EXCEPT !.bus.input = Input_write(s.bus.input, value)]
          [] addr >= 16408 /\ addr <= 24575 -> s
          [] addr >= 24576 /\ addr <= 32767 ->
                ram_write(Cartridge_cpu_write(s.cart, addr, value))
          [] addr >= 32768 ->
                rom_write(Cartridge_cpu_write(s.cart, addr, value))

\* MemoryBus::cpu_read_for_apu: the byte, and whether the u16 addition
\* prg_rom.len() as u16 + 0x8000 left the range of u16.  Where it does, the
\* byte is the one a build without overflow checks computes.
cpu_read_for_apu(s, addr) ==
    LET len16 == Wrap16(PrgLen(s.cart))
        sum   == len16 + 32768
    IN  IF addr <= 8191
        THEN [value |-> At(s.bus.ram, mirror_ram_addr(addr), 255), overflow |-> FALSE]
        ELSE IF addr >= 32768
        THEN [value |-> IF addr < Wrap16(sum) /\ addr - 32768 < len16
                        THEN PrgRom(s.cart, addr - 32768) ELSE 0,
              overflow |-> sum > 65535]
        ELSE [value |-> 0, overflow |-> FALSE]

\* MemoryBus::step_ppu
step_ppu(s) ==
    LET stepped(r) ==
            LET clock == r.ppu.scanline # s.ppu.scanline /\ r.ppu.scanline >= 0
                         /\ r.ppu.scanline < 240 /\ And(r.ppu.mask, 24) # 0
            IN  [s EXCEPT !.ppu = r.ppu,
                          !.cart = IF clock THEN clock_scanline(s.cart) ELSE s.cart,
                          !.ev.nmi = r.nmi, !.ev.skip = r.skip,
                          !.ev.rendering = And(r.ppu.mask, 24) # 0,
                          !.ev.clocked = clock]
    IN  stepped(Ppu_step(s.ppu))

\* MemoryBus::step_apu / Apu::step: cpu_cycles iterations of the APU loop.
\* The DMC reads memory only when its reader is about to fetch.
RECURSIVE step_apu(_, _)
step_apu(s, cpu_cycles) ==
    IF cpu_cycles = 0 THEN s
    ELSE LET fetch == s.apu.dmc.enabled /\ s.apu.dmc.sample_buffer_empty
                      /\ s.apu.dmc.bytes_remaining > 0
             cycled(rd, r) ==
                 [s EXCEPT !.apu = r.apu,
                           !.ev.apu_irq = s.ev.apu_irq \/ r.irq,
                           !.ev.timer = r.timer,
                           !.ev.quarter = s.ev.quarter \/ r.quarter,
                           !.ev.overflow = s.ev.overflow \/ rd.overflow,
                           !.ev.dmc_fetch = s.ev.dmc_fetch \/ fetch,
                           !.ev.dmc_addr = IF fetch THEN s.apu.dmc.current_address
                                           ELSE s.ev.dmc_addr,
                           !.ev.dmc_byte = IF fetch THEN rd.value ELSE s.ev.dmc_byte]
             read(rd) == cycled(rd, Apu_cycle(s.apu, rd.value))
         IN  step_apu(read(IF fetch THEN cpu_read_for_apu(s, s.apu.dmc.current_address)
                           ELSE [value |-> 0, overflow |-> FALSE]),
                      cpu_cycles - 1)

---------------------------------------------------------------------------
(* CPU (src/src/cpu.rs).  The program is an input: an instruction is a      *)
(* record [op, arg] standing for the bytes at pc, arg being the immediate   *)
(* value or the address (absolute, or zero page for LDA_zp).                *)

\* Cpu::new
Cpu_new ==
    [pc |-> 0, a |-> 0, x |-> 0, y |-> 0, sp |-> 253,
     status |-> Or(FLAG_U, FLAG_I), cycles |-> 0, stall_cycles |-> 0]

\* Cpu::set_flag
set_flag(status, flag, value) ==
    IF value THEN Or(status, flag) ELSE And(status, Not8(flag))

\* Cpu::get_flag
get_flag(status, flag) == And(status, flag) # 0

\* Cpu::update_zero_negative
update_zero_negative(status, value) ==
    set_flag(set_flag(status, FLAG_Z, value = 0), FLAG_N, And(value, FLAG_N) # 0)

\* Cpu::read_word
read_word(s, addr) ==
    LET word(lo, hi) == [s |-> hi.s, value |-> hi.value * 256 + lo.value]
        high(lo) == word(lo, Bus_read(lo.s, Wrap16(addr + 1)))
    IN  high(Bus_read(s, addr))

\* Cpu::push
push(s, value) ==
    [Bus_write(s, 256 + s.cpu.sp, value) EXCEPT !.cpu.sp = (s.cpu.sp + 255) % 256]

\* Cpu::push_word
push_word(s, value) == push(push(s, value \div 256), value % 256)

\* Cpu::push of a status byte; kind names the code that pushes it
push_status(s, value, kind) ==
    [push(s, value) EXCEPT !.ev.pushed = value, !.ev.push_kind = kind]

\* Cpu::pop: the system after the read and the byte popped
pop(s) ==
    Bus_read([s EXCEPT !.cpu.sp = (s.cpu.sp + 1) % 256], 256 + ((s.cpu.sp + 1) % 256))

\* Cpu::reset
Cpu_reset(s) ==
    LET jump(w) == [w.s EXCEPT !.cpu.pc = w.value]
    IN  jump(read_word([s EXCEPT !.cpu.sp = (s.cpu.sp + 253) % 256,
                                 !.cpu.status = Or(s.cpu.status, FLAG_I)],
                       65532))

\* Cpu::trigger_nmi pushing the status byte the way trigger_irq does
trigger_nmi_with_break(s) ==
    LET jump(w) == [w.s EXCEPT !.cpu.pc = w.value, !.cpu.cycles = s.cpu.cycles + 7,
                               !.ev.nmi_taken = TRUE]
        vector(s2) == jump(read_word([s2 EXCEPT !.cpu.status =
                                                    set_flag(s.cpu.status, FLAG_I, TRUE)],
                                     65530))
    IN  vector(push_status(push_word(s, s.cpu.pc),
                           Or(Or(s.cpu.status, FLAG_B), FLAG_U), "NMI"))

\* Cpu::trigger_nmi
trigger_nmi(s) ==
    LET jump(w) == [w.s EXCEPT !.cpu.pc = w.value, !.cpu.cycles = s.cpu.cycles + 7,
                               !.ev.nmi_taken = TRUE]
        vector(s2) == jump(read_word([s2 EXCEPT !.cpu.status =
                                                    set_flag(s.cpu.status, FLAG_I, TRUE)],
                                     65530))
    IN  vector(push_status(push_word(s, s.cpu.pc),
                           Or(And(s.cpu.status, Not8(FLAG_B)), FLAG_U), "NMI"))

\* Cpu::trigger_irq
trigger_irq(s) ==
    LET jump(w) == [w.s EXCEPT !.cpu.pc = w.value, !.cpu.cycles = s.cpu.cycles + 7,
                               !.ev.irq_taken = TRUE]
        vector(s2) == jump(read_word([s2 EXCEPT !.cpu.status =
                                                    set_flag(s.cpu.status, FLAG_I, TRUE)],
                                     65534))
    IN  IF ~get_flag(s.cpu.status, FLAG_I)
        THEN vector(push_status(push_word(s, s.cpu.pc),
                                Or(Or(s.cpu.status, FLAG_B), FLAG_U), "IRQ"))
        ELSE s

\* Cpu::handle_write_with_oamdma
handle_write_with_oamdma(s, addr, value) ==
    LET current_cycle_odd == And(s.cpu.cycles, 1) # 0
        stall(s1) == [s1 EXCEPT !.cpu.stall_cycles = s1.ev.dma_stall,
                                !.ev.dma_odd = current_cycle_odd]
    IN  IF addr = 16404
        THEN Bus_write(stall(trigger_oamdma(s, value, current_cycle_odd)), addr, value)
        ELSE Bus_write(s, addr, value)

\* The opcode byte of each modelled instruction
Opcode(op) ==
    CASE op = "LDA_imm" -> 169 [] op = "LDX_imm" -> 162 [] op = "LDY_imm" -> 160
      [] op = "LDA_abs" -> 173 [] op = "STA_abs" -> 141 [] op = "STX_abs" -> 142
      [] op = "STY_abs" -> 140 [] op = "SAX_abs" -> 143 [] op = "INC_abs" -> 238
      [] op = "CLI" -> 88 [] op = "SEI" -> 120 [] op = "NOP" -> 234
      [] op = "JMP_abs" -> 76 [] op = "LDA_zp" -> 165
      [] op = "BRK" -> 0 [] op = "PHP" -> 8 [] op = "PLP" -> 40 [] op = "PHA" -> 72

\* The instruction's length in bytes
Length(op) ==
    IF op \in {"CLI", "SEI", "NOP", "BRK", "PHP", "PLP", "PHA"} THEN 1
    ELSE IF op \in {"LDA_imm", "LDX_imm", "LDY_imm", "LDA_zp"} THEN 2 ELSE 3

\* Cpu::step up to the operand fetch: pc moves past the instruction and the
\* open bus holds the last byte fetched
Fetch(s, ins) ==
    LET len  == Length(ins.op)
        last == IF len = 1 THEN Opcode(ins.op)
                ELSE IF len = 2 THEN ins.arg ELSE ins.arg \div 256
    IN  [s EXCEPT !.cpu.pc = Wrap16(s.cpu.pc + len), !.bus.open_bus = last]

\* Observation: the instruction writes value to addr
Wrote(s, addr, value) == [s EXCEPT !.ev.wrote = addr, !.ev.wrote_value = value]

\* Cpu::execute for the modelled opcodes: the system after the instruction
\* and the cycles it took
Execute(s0, ins) ==
    LET s == Fetch(s0, ins)
        op == ins.op
        load(r, cycles) ==
            [s |-> [r.s EXCEPT !.cpu.a = r.value,
                               !.cpu.status = update_zero_negative(s.cpu.status, r.value)],
             cycles |-> cycles]
        modify(r, value) ==
            [s |-> [Bus_write(Wrote(r.s, ins.arg, value), ins.arg, value)
                        EXCEPT !.cpu.status = update_zero_negative(s.cpu.status, value)],
             cycles |-> 6]
        increment(r) == modify(r, Wrap8(r.value + 1))
        pulled(r) ==
            [s |-> [r.s EXCEPT !.cpu.status = Or(And(r.value, Not8(FLAG_B)), FLAG_U)],
             cycles |-> 4]
        vectored(w) == [s |-> [w.s EXCEPT !.cpu.pc = w.value], cycles |-> 7]
        break(r) ==
            vectored(read_word(
                [push_status(push_word(r, r.cpu.pc),
                             Or(Or(r.cpu.status, FLAG_B), FLAG_U), "BRK")
                     EXCEPT !.cpu.status = set_flag(r.cpu.status, FLAG_I, TRUE)],
                65534))
    IN  CASE op = "LDA_imm" ->
                [s |-> [s EXCEPT !.cpu.a = ins.arg,
                                 !.cpu.status = update_zero_negative(s.cpu.status, ins.arg)],
                 cycles |-> 2]
          [] op = "LDX_imm" ->
                [s |-> [s EXCEPT !.cpu.x = ins.arg,
                                 !.cpu.status = update_zero_negative(s.cpu.status, ins.arg)],
                 cycles |-> 2]
          [] op = "LDY_imm" ->
                [s |-> [s EXCEPT !.cpu.y = ins.arg,
                                 !.cpu.status = update_zero_negative(s.cpu.status, ins.arg)],
                 cycles |-> 2]
          [] op = "LDA_abs" -> load(Bus_read(s, ins.arg), 4)
          [] op = "LDA_zp" -> load(Bus_read(s, ins.arg), 3)
          [] op = "STA_abs" ->
                [s |-> handle_write_with_oamdma(Wrote(s, ins.arg, s.cpu.a), ins.arg, s.cpu.a),
                 cycles |-> 4]
          [] op = "STX_abs" ->
                [s |-> Bus_write(Wrote(s, ins.arg, s.cpu.x), ins.arg, s.cpu.x),
                 cycles |-> 4]
          [] op = "STY_abs" ->
                [s |-> Bus_write(Wrote(s, ins.arg, s.cpu.y), ins.arg, s.cpu.y),
                 cycles |-> 4]
          [] op = "SAX_abs" ->
                [s |-> Bus_write(Wrote(s, ins.arg, And(s.cpu.a, s.cpu.x)), ins.arg,
                                 And(s.cpu.a, s.cpu.x)),
                 cycles |-> 4]
          [] op = "INC_abs" -> increment(Bus_read(s, ins.arg))
          [] op = "CLI" ->
                [s |-> [s EXCEPT !.cpu.status = set_flag(s.cpu.status, FLAG_I, FALSE)],
                 cycles |-> 2]
          [] op = "SEI" ->
                [s |-> [s EXCEPT !.cpu.status = set_flag(s.cpu.status, FLAG_I, TRUE)],
                 cycles |-> 2]
          [] op = "NOP" -> [s |-> s, cycles |-> 2]
          [] op = "JMP_abs" -> [s |-> [s EXCEPT !.cpu.pc = ins.arg], cycles |-> 3]
          [] op = "BRK" -> break([s EXCEPT !.cpu.pc = Wrap16(s.cpu.pc + 1)])
          [] op = "PHP" ->
                [s |-> push_status(s, Or(Or(s.cpu.status, FLAG_B), FLAG_U), "PHP"),
                 cycles |-> 3]
          [] op = "PLP" -> pulled(pop(s))
          [] op = "PHA" -> [s |-> push(s, s.cpu.a), cycles |-> 3]

\* Cpu::step without the early return of the stall branch: the stall counter
\* is decremented and the instruction at pc is executed all the same
Cpu_step_falling_through(s, ins) ==
    LET count(r) == [s |-> [r.s EXCEPT !.cpu.cycles = s.cpu.cycles + r.cycles],
                     cycles |-> r.cycles]
        stalled(v) == IF v.cpu.stall_cycles > 0
                      THEN [v EXCEPT !.cpu.stall_cycles = v.cpu.stall_cycles - 1]
                      ELSE v
    IN  count(Execute(stalled([s EXCEPT !.ev.executed = ins.op]), ins))

\* Cpu::step returning 0 cycles
Cpu_step_returning_zero(s, ins) ==
    LET free(r) == [s |-> r.s, cycles |-> 0]
    IN  free(Cpu_step_falling_through(s, ins))

\* Cpu::step: a stall cycle if the CPU is stalled, else the instruction at pc
Cpu_step(s, ins) ==
    LET count(r) == [s |-> [r.s EXCEPT !.cpu.cycles = s.cpu.cycles + r.cycles],
                     cycles |-> r.cycles]
    IN  IF s.cpu.stall_cycles > 0
        THEN [s |-> [s EXCEPT !.cpu.stall_cycles = s.cpu.stall_cycles - 1,
                              !.cpu.cycles = s.cpu.cycles + 1],
              cycles |-> 1]
        ELSE count(Execute([s EXCEPT !.ev.executed = ins.op], ins))

---------------------------------------------------------------------------
(* The frame drivers: Emulator::step_frame (src/src/emulator.rs),           *)
(* EmulationState::step_frame (src/src/ui/app.rs) and                       *)
(* NesEmulator::step_frame (src/nesium-android/src/lib.rs).  One action     *)
(* is one iteration of the master loop.  cpu_cycle_accumulator is kept in   *)
(* thirds of a CPU cycle (acc3), so the f64 rounding of the drivers is not  *)
(* modelled.                                                                *)

Drivers == {"Emulator", "EmulationState", "NesEmulator"}

\* The threads that call into the Android binding
Threads == {1, 2}

\* The observations of one handler, before it has done anything
ev0 ==
    [stepped |-> FALSE, scanline |-> -1, cycle |-> 0, nmi |-> FALSE, skip |-> FALSE,
     line_prev |-> FALSE, line_after |-> FALSE, rendering |-> FALSE, clocked |-> FALSE,
     nmi_taken |-> FALSE, mapper_due |-> FALSE, mapper_irq |-> FALSE,
     irq_taken |-> FALSE,
     cpu_stepped |-> FALSE, executed |-> "none", wrote |-> -1, wrote_value |-> 0,
     dma |-> FALSE, dma_page |-> 0, dma_stall |-> 0, dma_odd |-> FALSE,
     apu_irq |-> FALSE, flag_before |-> FALSE, overflow |-> FALSE,
     dmc_fetch |-> FALSE, vram_index |-> -1, pushed |-> -1, push_kind |-> "none",
     api |-> 0, api_locked |-> FALSE, api_during |-> FALSE,
     read |-> -1, read_value |-> 0, pad_bit |-> 0, dmc_addr |-> -1, dmc_byte |-> 0,
     timer |-> FALSE, timer_prev |-> FALSE, quarter |-> FALSE,
     stall_before |-> 0, step_cycles |-> 0, cpu_in |-> Cpu_new, cpu_out |-> Cpu_new,
     quiet |-> TRUE]

Sys == [cpu |-> cpu, ppu |-> ppu, apu |-> apu, cart |-> cart, bus |-> bus,
        ev |-> [ev0 EXCEPT !.line_prev = ev.line_after, !.timer_prev = ev.timer]]

\* The NMI line: PPUCTRL bit 7 and the VBlank flag
nmi_line(p) == And(p.ctrl, 128) # 0 /\ And(p.status, 128) # 0

\* Either APU interrupt flag
apu_flag(a) == a.frame_counter_interrupt \/ a.dmc.irq_occurred

\* step_frame, the loop body up to the accumulator: step_ppu, the NMI, and
\* (not in Emulator) the mapper IRQ
TickVideo(s0, kind) ==
    LET line(s) == [s EXCEPT !.ev.line_after = nmi_line(s.ppu)]
        nmi(s) == IF s.ev.nmi THEN trigger_nmi(s) ELSE s
        due(s) == irq_pending(s.cart) /\ And(s.cpu.status, FLAG_I) = 0
        mapper_irq(s) ==
            IF kind # "Emulator" /\ due(s)
            THEN trigger_irq([s EXCEPT !.cart = acknowledge_irq(s.cart),
                                       !.ev.mapper_due = TRUE,
                                       !.ev.mapper_irq = TRUE])
            ELSE [s EXCEPT !.ev.mapper_due = due(s)]
    IN  mapper_irq(nmi(line(step_ppu([s0 EXCEPT !.ev.stepped = TRUE,
                                                !.ev.scanline = s0.ppu.scanline,
                                                !.ev.cycle = s0.ppu.cycle]))))

\* The inner loop of a driver that steps the APU and drops the IRQ it reports
TickCpu_dropping_irq(s0, ins) ==
    LET audio(r) == [s |-> step_apu(r.s, r.cycles), cycles |-> r.cycles]
    IN  audio(Cpu_step([s0 EXCEPT !.ev.cpu_stepped = TRUE,
                                  !.ev.flag_before = apu_flag(s0.apu)], ins))

\* step_frame, the inner loop: one Cpu::step, the APU for its cycles, and the
\* APU IRQ.  The accumulator is below one cycle again after one step.
TickCpu(s0, ins) ==
    LET apu_irq(s1, cycles) ==
            [s |-> IF s1.ev.apu_irq /\ And(s1.cpu.status, FLAG_I) = 0
                   THEN trigger_irq(s1) ELSE s1,
             cycles |-> cycles]
        audio(r) == apu_irq(step_apu(r.s, r.cycles), r.cycles)
        stalled == s0.cpu.stall_cycles > 0
        observed(r) ==
            [s |-> [r.s EXCEPT
                      !.ev.stall_before = s0.cpu.stall_cycles,
                      !.ev.step_cycles = r.cycles,
                      !.ev.cpu_in = IF stalled THEN s0.cpu ELSE Cpu_new,
                      !.ev.cpu_out = IF stalled THEN r.s.cpu ELSE Cpu_new,
                      !.ev.quiet = /\ r.s.bus = s0.bus /\ r.s.ppu = s0.ppu
                                   /\ r.s.apu = s0.apu /\ r.s.cart = s0.cart],
             cycles |-> r.cycles]
    IN  audio(observed(Cpu_step([s0 EXCEPT !.ev.cpu_stepped = TRUE,
                                           !.ev.flag_before = apu_flag(s0.apu)], ins)))

\* The master tick, counted from power-on, whose Ppu::step is the one at
\* scanline 241 dot 1: 242 lines of 341 dots, and dot 0 of line 241
VBlankTick == 242 * 341 + 2

\* The time windows (in master ticks since power-on) in which a program
\* family executes instructions of its menu; outside them it executes NOPs
\* and, after the last window, a JMP to itself.
Windows(prog) ==
    CASE prog = "irq" -> {<<0, 40>>, <<343, 352>>}
      [] prog = "frame" -> {<<0, 12>>}
      [] prog = "nmi" -> {<<0, 9>>, <<VBlankTick, VBlankTick + 8>>}
      [] prog = "dma" -> {<<0, 30>>}
      [] prog = "apu" -> {<<0, 60>>}
      [] prog = "vram" -> {<<0, 210>>}
      [] prog = "firq" -> {<<0, 8>>}
      [] prog = "stall" -> {<<0, 14>>}
      [] prog = "term" -> {<<0, 8>>}
      [] prog = "reset" -> {<<PPU_CYCLES_PER_FRAME - 40, PPU_CYCLES_PER_FRAME - 1>>}
      [] OTHER -> {}

InWindow(prog, t) == \E w \in Windows(prog) : w[1] <= t /\ t <= w[2]

WindowAhead(prog, t) == \E w \in Windows(prog) : t <= w[2]

\* The pages the DMA programs copy from: RAM, a RAM mirror, PPU registers,
\* PRG RAM, PRG ROM
DmaPages == {2, 10, 32, 96, 128, 255}

\* Instructions of one opcode over a set of operands
Ins(op, args) == {[op |-> op, arg |-> a] : a \in args}

\* The high and low bytes of the nametable addresses the VRAM program uses:
\* the four nametables and the mirror at 0x3000
NametablePages == {32, 36, 44, 60}
NametableLows == {0, 255}

\* The VRAM program, instruction by instruction: five serial writes to the
\* MMC1 control register (value 0b0110m, m = 0 one-screen lower, m = 1
\* one-screen upper, PRG mode 3), a PPUDATA write to a nametable address
\* and a PPUDATA read from one
VramProgram ==
    << Ins("LDA_imm", {0, 1}), Ins("STA_abs", {32768}),
       Ins("LDA_imm", {0}), Ins("STA_abs", {32768}),
       Ins("LDA_imm", {1}), Ins("STA_abs", {32768}), Ins("STA_abs", {32768}),
       Ins("LDA_imm", {0}), Ins("STA_abs", {32768}),
       Ins("LDA_imm", NametablePages), Ins("STA_abs", {8198}),
       Ins("LDA_imm", NametableLows), Ins("STA_abs", {8198}),
       Ins("LDA_imm", {119}), Ins("STA_abs", {8199}),
       Ins("LDA_imm", NametablePages), Ins("STA_abs", {8198}),
       Ins("LDA_imm", NametableLows), Ins("STA_abs", {8198}),
       Ins("LDA_abs", {8199}) >>

FuelVram == Len(VramProgram)

\* The frame IRQ program: CLI, then STA $4017 with A = 0 (4-step mode, IRQ
\* not inhibited)
FirqProgram == << Ins("CLI", {0}), Ins("STA_abs", {16407}) >>

FuelFirq == Len(FirqProgram)

\* The stall program: LDA #2, then STA $4014 (an OAM DMA from page 2)
StallProgram == << Ins("LDA_imm", {2}), Ins("STA_abs", {16404}) >>

FuelStall == Len(StallProgram)

\* The DMC program: LDA #$10, then STA $4015 (the DMC starts a sample)
TermProgram == << Ins("LDA_imm", {16}), Ins("STA_abs", {16405}) >>

FuelTerm == Len(TermProgram)

\* The instructions a program family is made of (for the VRAM program, the
\* next instruction of the sequence)
Menu(prog) ==
    CASE prog = "irq" ->
            {[op |-> "LDA_imm", arg |-> 8], [op |-> "STA_abs", arg |-> 8193],
             [op |-> "STA_abs", arg |-> 57345], [op |-> "CLI", arg |-> 0]}
      [] prog = "frame" ->
            {[op |-> "LDA_imm", arg |-> 8], [op |-> "STA_abs", arg |-> 8193]}
      [] prog = "nmi" ->
            {[op |-> "LDA_imm", arg |-> 128], [op |-> "STA_abs", arg |-> 8192]}
      [] prog = "dma" ->
            {[op |-> o, arg |-> v] : o \in {"LDA_imm", "LDX_imm"}, v \in DmaPages}
            \cup {[op |-> o, arg |-> 16404] :
                      o \in {"STA_abs", "STX_abs", "STY_abs", "SAX_abs", "INC_abs"}}
            \cup {[op |-> "STA_abs", arg |-> a] : a \in {513, 24577}}
            \cup {[op |-> "LDA_zp", arg |-> 16]}
      [] prog = "apu" ->
            {[op |-> "LDA_imm", arg |-> 128], [op |-> "LDA_imm", arg |-> 16],
             [op |-> "STA_abs", arg |-> 16400], [op |-> "STA_abs", arg |-> 16405],
             [op |-> "CLI", arg |-> 0]}
      [] prog = "vram" ->
            IF drv.fuel > 0 THEN VramProgram[FuelVram - drv.fuel + 1] ELSE {}
      [] prog = "firq" ->
            IF drv.fuel > 0 THEN FirqProgram[FuelFirq - drv.fuel + 1] ELSE {}
      [] prog = "stall" ->
            IF drv.fuel > 0 THEN StallProgram[FuelStall - drv.fuel + 1] ELSE {}
      [] prog = "term" ->
            IF drv.fuel > 0 THEN TermProgram[FuelTerm - drv.fuel + 1] ELSE {}
      [] prog = "reset" ->
            IF drv.fuel > 0 THEN StallProgram[FuelStall - drv.fuel + 1] ELSE {}
      [] OTHER -> {}

\* What the bytes at pc can be at this point of the run
Choices ==
    IF cpu.stall_cycles > 0 THEN {[op |-> "NOP", arg |-> 0]}
    ELSE IF ~WindowAhead(drv.prog, drv.clock)
    THEN {[op |-> "JMP_abs", arg |-> cpu.pc]}
    ELSE {[op |-> "NOP", arg |-> 0]}
         \cup (IF InWindow(drv.prog, drv.clock) /\ drv.fuel > 0
               THEN Menu(drv.prog) ELSE {})

\* A CPU read of addr indexes prg_rom outside its length (the slice index
\* panics)
ReadPanics(c, addr) ==
    LET outside(i) == i # -1 /\ i >= PrgLen(c)
    IN  outside(prg_rom_index(c, addr))

\* RingBuffer::new (src/src/ui/audio.rs).  The resampling step
\* 1 / resample_ratio = 44100 / output_sample_rate is the exact fraction
\* step_num / step_den and resample_pos is kept as a count of 1 / step_den
\* (the f64 rounding is not modelled); volume and muted, which only scale the
\* output, are left out.
RingBuffer_new(capacity, step_num, step_den) ==
    [data |-> [i \in 0..(capacity - 1) |-> 0], write_pos |-> 0, read_pos |-> 0,
     count |-> 0, step_num |-> step_num, step_den |-> step_den, resample_pos |-> 0,
     last_sample |-> 0]

\* RingBuffer::capacity
capacity(r) == Cardinality(DOMAIN r.data)

\* RingBuffer::write for one sample, storing it whether or not the buffer is
\* full
RingBuffer_write_sample_unchecked(r, sample) ==
    [r EXCEPT !.data[r.write_pos] = sample,
              !.write_pos = (r.write_pos + 1) % capacity(r),
              !.count = r.count + 1]

\* RingBuffer::write, the loop body for one sample: stored when there is
\* room, dropped otherwise
RingBuffer_write_sample(r, sample) ==
    IF r.count < capacity(r)
    THEN [r EXCEPT !.data[r.write_pos] = sample,
                   !.write_pos = (r.write_pos + 1) % capacity(r),
                   !.count = r.count + 1]
    ELSE r

\* RingBuffer::write.  The result carries the cells the loop stored into
\* while they held a sample that had not been consumed (live: those cells).
RECURSIVE RingBuffer_write(_, _, _)
RingBuffer_write(r, live, samples) ==
    IF samples = <<>> THEN [ring |-> r, live |-> live, overwrote |-> FALSE]
    ELSE LET r1 == RingBuffer_write_sample(r, Head(samples))
             stored == r1 # r \/ r1.count # r.count
             rest == RingBuffer_write(r1, IF stored THEN live \cup {r.write_pos}
                                          ELSE live, Tail(samples))
         IN  [rest EXCEPT !.overwrote = rest.overwrote
                                         \/ (stored /\ r.write_pos \in live)]

\* RingBuffer::read_resampled, the inner loop that consumes the input
\* samples the position has passed
RECURSIVE RingBuffer_consume(_, _)
RingBuffer_consume(r, live) ==
    IF r.resample_pos >= r.step_den /\ r.count > 0
    THEN RingBuffer_consume([r EXCEPT !.resample_pos = r.resample_pos - r.step_den,
                                      !.read_pos = (r.read_pos + 1) % capacity(r),
                                      !.count = r.count - 1],
                            live \ {r.read_pos})
    ELSE [ring |-> r, live |-> live]

\* RingBuffer::read_resampled for n output samples (the interpolated output
\* values are outside the model)
RECURSIVE RingBuffer_read_resampled(_, _, _)
RingBuffer_read_resampled(r, live, n) ==
    IF n = 0 THEN [ring |-> r, live |-> live]
    ELSE LET next(x) == RingBuffer_read_resampled(x.ring, x.live, n - 1)
             stepped == [r EXCEPT !.resample_pos = r.resample_pos + r.step_num]
         IN  IF r.count > 1
             THEN next(RingBuffer_consume(stepped, live))
             ELSE IF r.count = 1
             THEN IF stepped.resample_pos >= r.step_den
                  THEN next([ring |-> [stepped EXCEPT
                                         !.last_sample = r.data[r.read_pos],
                                         !.resample_pos = stepped.resample_pos - r.step_den,
                                         !.read_pos = (r.read_pos + 1) % capacity(r),
                                         !.count = r.count - 1],
                             live |-> live \ {r.read_pos}])
                  ELSE next([ring |-> stepped, live |-> live])
             ELSE next([ring |-> [r EXCEPT !.resample_pos = 0], live |-> live])

\* Emulator::new / EmulationState::new / NesEmulator::new.  The session is
\* panicked from the start when the read of the reset vector panics.
Power(kind, cartridge, prog, fuel, limit, checks) ==
    LET start(s) ==
            /\ cpu = s.cpu /\ ppu = s.ppu /\ apu = s.apu /\ cart = s.cart /\ bus = s.bus
            /\ ev = ev0
            /\ drv = [kind |-> kind,
                      phase |-> IF ReadPanics(cartridge, 65532) THEN "panicked"
                                ELSE "idle",
                      ppu_cycles_this_frame |-> 0,
                      acc3 |-> 0, frames |-> 0, clock |-> 0, skips |-> 0,
                      start_scanline |-> -1, start_cycle |-> 0,
                      prog |-> prog, fuel |-> fuel, limit |-> limit,
                      overflow_checks |-> checks,
                      serial |-> 0, bits |-> 0, before |-> cartridge.mapper,
                      clocks |-> -1, since |-> 0, watch |-> -1, waited |-> -1,
                      accesses |-> 0, writes |-> 0,
                      latched |-> -1, latched_prev |-> -1, ported |-> FALSE,
                      edge |-> -1, shifted |-> 0,
                      api |-> "none", x_len |-> 0, x_seed |-> 0,
                      calls |-> 0, frame_len |-> -1, frame_odd |-> FALSE,
                      on_all |-> TRUE, off_all |-> TRUE,
                      was_on |-> FALSE, was_off |-> FALSE,
                      at_scanline |-> -2, at_cycle |-> -1, v_before |-> 0,
                      image |-> [len |-> 0, magic |-> <<>>, prg |-> 0, chr |-> 0,
                                 flags6 |-> 0, flags7 |-> 0],
                      load |-> "none", load_id |-> -1,
                      pc |-> [t \in Threads |-> "idle"],
                      call |-> [t \in Threads |-> "none"],
                      owner |-> 0, present |-> FALSE,
                      fetched |-> {}, filled |-> 0, reset |-> FALSE,
                      poisoned |-> FALSE, jni |-> "none", ret |-> 0, recovery |-> -1,
                      audio |-> RingBuffer_new(0, 1, 1), live |-> {},
                      overwrote |-> FALSE]
    IN  start(Cpu_reset([cpu |-> Cpu_new,
                         ppu |-> set_mirroring(Ppu_new, cartridge.mirroring),
                         apu |-> Apu_new, cart |-> cartridge, bus |-> MemoryBus_new,
                         ev |-> ev0]))

\* drv.watch: the CPU cycles executed since an instruction wrote 0x00 to
\* 0x4017, while the I flag has been clear, no IRQ has been taken and 0x4015
\* and 0x4017 have not been written again; -1 otherwise.  s is the system
\* after the iteration, cycles the cycles of its Cpu::step.
Watch(s, cycles) ==
    IF s.ev.irq_taken \/ s.ev.nmi_taken \/ And(s.cpu.status, FLAG_I) # 0 THEN -1
    ELSE IF s.ev.wrote = 16407 /\ s.ev.wrote_value = 0 THEN 0
    ELSE IF s.ev.wrote \in {16405, 16407} \/ drv.watch < 0 THEN -1
    ELSE drv.watch + cycles

\* step_frame is called
BeginFrame ==
    /\ drv.phase = "idle"
    /\ drv.clock < drv.limit
    /\ drv' = [drv EXCEPT !.phase = "running", !.ppu_cycles_this_frame = 0,
                          !.start_scanline = ppu.scanline, !.start_cycle = ppu.cycle]
    /\ ev' = [ev0 EXCEPT !.line_after = ev.line_after]
    /\ UNCHANGED <<cpu, ppu, apu, cart, bus>>

\* One iteration of the master loop of step_frame
Tick ==
    /\ drv.phase = "running"
    /\ drv.ppu_cycles_this_frame < PPU_CYCLES_PER_FRAME
    /\ drv.clock < drv.limit
    /\ \E ins \in Choices :
        LET run  == drv.acc3 + 1 >= 3
            used == run /\ cpu.stall_cycles = 0 /\ ins \in Menu(drv.prog)
            inner(v) == IF run THEN TickCpu(v, ins) ELSE [s |-> v, cycles |-> 0]
            done(s, cycles) ==
                /\ cpu' = s.cpu /\ ppu' = s.ppu /\ apu' = s.apu
                /\ cart' = s.cart /\ bus' = s.bus /\ ev' = s.ev
                /\ drv' = [drv EXCEPT
                              !.acc3 = drv.acc3 + 1 - 3 * cycles,
                              !.ppu_cycles_this_frame = drv.ppu_cycles_this_frame + 1,
                              !.clock = drv.clock + 1,
                              !.skips = IF s.ev.skip THEN drv.skips + 1 ELSE drv.skips,
                              !.fuel = IF used THEN drv.fuel - 1 ELSE drv.fuel,
                              !.watch = Watch(s, cycles),
                              !.waited = IF s.ev.irq_taken /\ drv.watch >= 0
                                         THEN drv.watch + cycles ELSE drv.waited,
                              !.phase = IF s.ev.overflow /\ drv.overflow_checks
                                        THEN "panicked" ELSE "running"]
            iteration(r) == done(r.s, r.cycles)
        IN  iteration(inner(TickVideo(Sys, drv.kind)))

\* step_frame returns
EndFrame ==
    /\ drv.phase = "running"
    /\ drv.ppu_cycles_this_frame = PPU_CYCLES_PER_FRAME
    /\ drv' = [drv EXCEPT !.phase = "idle", !.frames = drv.frames + 1]
    /\ ev' = [ev0 EXCEPT !.line_after = ev.line_after]
    /\ UNCHANGED <<cpu, ppu, apu, cart, bus>>

---------------------------------------------------------------------------
(* The mapper IRQ and the scanline counter: an MMC3 cartridge under each    *)
(* driver, for the first two scanlines after power-on.                      *)

MaxTicksIrq == 700
FuelIrq == 4

InitIrq ==
    \E kind \in Drivers :
        Power(kind, Cartridge_load("Mmc3", "Vertical", 2, 1), "irq", FuelIrq,
              MaxTicksIrq, FALSE)

NextIrq == BeginFrame \/ Tick

SpecIrq == InitIrq /\ [][NextIrq]_vars

\* C1: in every frame driver, on every master tick at which a mapper IRQ is
\* pending and the I flag is clear when the driver has stepped the PPU and
\* handled the NMI, trigger_irq runs for it in that same tick.
C1_MapperIrqDelivered ==
    (ev.stepped /\ ev.mapper_due) => (ev.mapper_irq /\ ev.irq_taken)

\* C1, the part the code keeps: the two drivers that poll the mapper deliver
\* the IRQ on the tick on which it is pending with I clear, and acknowledge it.
C1_PollingDrivers ==
    (drv.kind # "Emulator" /\ ev.stepped /\ ev.mapper_due)
        => (ev.mapper_irq /\ ev.irq_taken /\ ~irq_pending(cart))

\* C1, its case: a mapper IRQ that stayed latched while I was set is
\* delivered by a polling driver once the program has executed CLI.
C1_DeliveredAfterWait ==
    drv.kind # "Emulator" /\ ev.mapper_irq /\ drv.clock > 343

---------------------------------------------------------------------------
(* Whole frames: two step_frame calls on an NROM cartridge, the program     *)
(* turning the background on (or not) right after reset.                    *)

MaxFrames == 2
FuelFrame == 2

InitFrame ==
    \E kind \in {"Emulator", "NesEmulator"} :
        Power(kind, Cartridge_load("Nrom", "Horizontal", 1, 1), "frame", FuelFrame,
              MaxFrames * PPU_CYCLES_PER_FRAME, FALSE)

NextFrame == BeginFrame \/ Tick \/ EndFrame

SpecFrame == InitFrame /\ [][NextFrame]_vars

\* C2: when a step_frame call has returned, the PPU dots stepped since
\* power-on number 89,342 per call less the odd-frame skips, and the PPU is
\* at the (scanline, dot) position it had when the call began.
C2_OneFramePerCall ==
    (drv.phase = "idle" /\ drv.frames > 0)
        => /\ drv.clock = PPU_CYCLES_PER_FRAME * drv.frames - drv.skips
           /\ ppu.scanline = drv.start_scanline
           /\ ppu.cycle = drv.start_cycle

\* C2, its case: a call has returned after a frame in which the odd-frame
\* dot was skipped.
C2_SkippedFrameDone == drv.phase = "idle" /\ drv.frames > 0 /\ drv.skips > 0

---------------------------------------------------------------------------
(* The NMI edge: one frame on an NROM cartridge up to the first scanlines   *)
(* of VBlank.  The program sets PPUCTRL bit 7 right after reset, or once    *)
(* VBlank has begun, or not at all.                                         *)

MaxTicksNmi == 83000
FuelNmi == 2

InitNmi ==
    Power("EmulationState", Cartridge_load("Nrom", "Horizontal", 1, 1), "nmi", FuelNmi,
          MaxTicksNmi, FALSE)

NextNmi == BeginFrame \/ Tick

SpecNmi == InitNmi /\ [][NextNmi]_vars

\* C6: Ppu::step returns true on exactly the steps after which the NMI line
\* (PPUCTRL bit 7 and the VBlank flag) is high when it was low after the
\* step before, whichever of the two bits rose.
C6_NmiOnRisingEdge ==
    ev.stepped => (ev.nmi <=> (ev.line_after /\ ~ev.line_prev))

\* C6, the part the code keeps: when Ppu::step returns true the line has
\* just risen, and a rise caused by VBlank being set is reported.
C6_VBlankEdge ==
    ev.stepped =>
        /\ ev.nmi => (ev.line_after /\ ~ev.line_prev)
        /\ (ev.scanline = 241 /\ ev.cycle = 1 /\ ev.line_after) => ev.nmi

\* C6, its cases: a step returned true at scanline 241 dot 1; PPUCTRL bit 7
\* was set by the program while the VBlank flag was already set.
C6_NmiAtVBlank == ev.stepped /\ ev.nmi /\ ev.scanline = 241 /\ ev.cycle = 1

C6_EnabledDuringVBlank ==
    ev.stepped /\ ev.line_after /\ ~ev.line_prev /\ ev.scanline = 241 /\ ev.cycle > 1

\* C8: mapper.clock_scanline() is invoked by exactly the PPU steps that bring
\* the dot counter of a visible scanline (0..239) to 260 with rendering
\* enabled, hence once per such scanline and never otherwise.
C8_ClockAtDot260 ==
    ev.stepped =>
        (ev.clocked <=> (ppu.cycle = 260 /\ ppu.scanline >= 0 /\ ppu.scanline < 240
                         /\ ev.rendering))

\* C8, what the code does: the counter is clocked by exactly the steps that
\* enter a visible scanline (dot 0) with rendering enabled.
C8_ClockAtLineStart ==
    ev.stepped =>
        (ev.clocked <=> (ppu.cycle = 0 /\ ppu.scanline >= 0 /\ ppu.scanline < 240
                         /\ ev.rendering))

\* C8, its case: a step has brought the dot counter of a visible scanline
\* to 260 with rendering enabled.
C8_Dot260Reached ==
    ev.stepped /\ ppu.cycle = 260 /\ ppu.scanline = 0 /\ ev.rendering

---------------------------------------------------------------------------
(* OAM DMA: an NROM cartridge; the program loads page numbers, stores to    *)
(* RAM and PRG RAM, and writes 0x4014 with each kind of store.              *)

MaxTicksDma == 48
FuelDma == 3

InitDma ==
    \E kind \in {"Emulator", "EmulationState"} :
        Power(kind, Cartridge_load("Nrom", "Horizontal", 1, 1), "dma", FuelDma,
              MaxTicksDma, FALSE)

NextDma == BeginFrame \/ Tick

SpecDma == InitDma /\ [][NextDma]_vars

\* C3: the stall count trigger_oamdma returns is 513 when the write to 0x4014
\* is on an odd CPU cycle and 514 when it is on an even one, and the CPU's
\* stall counter holds that value when the instruction is done.
C3_Stall513Or514 ==
    ev.dma => /\ ev.dma_stall = (IF ev.dma_odd THEN 513 ELSE 514)
              /\ cpu.stall_cycles = ev.dma_stall

\* C3, what the code does: 512 on an odd cycle, 513 on an even one, stored
\* unchanged in the stall counter.
C3_Stall512Or513 ==
    ev.dma => /\ ev.dma_stall = (IF ev.dma_odd THEN 512 ELSE 513)
              /\ cpu.stall_cycles = ev.dma_stall

\* C3, its cases: a DMA started on an odd cycle, and one on an even cycle.
C3_OddCycle == ev.dma /\ ev.dma_odd

C3_EvenCycle == ev.dma /\ ~ev.dma_odd

\* The byte of the CPU address space at addr, for the pages that hold
\* memory: RAM and its mirrors, PRG RAM, PRG ROM
Peek(addr) ==
    IF addr <= 8191 THEN At(bus.ram, mirror_ram_addr(addr), 255)
    ELSE IF addr >= 32768 THEN Cartridge_cpu_read(cart, addr)
    ELSE At(bus.prg_ram, addr - 24576, 0)

MemoryPage(page) == page <= 31 \/ page >= 96

C4_OamEqualsRamPage ==
    ev.dma =>
        \A i \in 0..255 :
            At(ppu.oam, i, 0) = IF ev.dma_page <= 31 THEN Peek(ev.dma_page * 256 + i)
                                ELSE 0

\* C4, its cases: a DMA from a RAM page the program has written to, and a
\* DMA from a PRG ROM page.
C4_DmaFromWrittenRam ==
    ev.dma /\ ev.dma_page = 2 /\ At(bus.ram, 513, 255) # 255

C5_EveryWriteTriggersDma ==
    (ev.cpu_stepped /\ ev.wrote = 16404) =>
        (ev.dma /\ ev.dma_page = ev.wrote_value /\ cpu.stall_cycles > 0)

\* C5, the part the code keeps: a store of the accumulator (STA) to 0x4014
\* starts the DMA; no other instruction does.
C5_OnlyStaTriggersDma ==
    ev.cpu_stepped =>
        /\ ev.dma <=> (ev.executed = "STA_abs" /\ ev.wrote = 16404)
        /\ ev.dma => (ev.dma_page = ev.wrote_value /\ cpu.stall_cycles > 0)

\* C5, its case: an instruction other than STA has written 0x4014.
C5_OtherStoreTo4014 == ev.wrote = 16404 /\ ev.executed # "STA_abs"

---------------------------------------------------------------------------
(* The APU interrupt and the DMC reader: an NROM cartridge of 16 KiB or     *)
(* 32 KiB under each driver, built with or without overflow checks.  The     *)
(* program enables the DMC interrupt and starts a one-byte sample.           *)

MaxTicksApu == 120
FuelApu == 5

InitApu ==
    \E kind \in Drivers, prg_banks \in {1, 2}, checks \in BOOLEAN :
        Power(kind, Cartridge_load("Nrom", "Horizontal", prg_banks, 1), "apu", FuelApu,
              MaxTicksApu, checks)

NextApu == BeginFrame \/ Tick

SpecApu == InitApu /\ [][NextApu]_vars

\* C7: Apu::step returns true on every call at whose end the frame-counter
\* interrupt flag or the DMC interrupt flag is set, so the driver sees the
\* IRQ for as long as a flag stays set.
C7_IrqWhileFlagSet ==
    ev.cpu_stepped => (apu_flag(apu) => ev.apu_irq)

\* C7, as the code has it: Apu::step returns true only in the call in which
\* a flag is raised, and in every call that finds no flag and leaves one.
C7_IrqWhenFlagRaised ==
    ev.cpu_stepped =>
        /\ ev.apu_irq => apu_flag(apu)
        /\ (apu_flag(apu) /\ ~ev.flag_before) => ev.apu_irq

\* C7: a call of Apu::step returns true and leaves the DMC flag set
C7_FlagRaised == ev.cpu_stepped /\ apu.dmc.irq_occurred /\ ev.apu_irq

\* C7: a call of Apu::step begins and ends with a flag set
C7_FlagHeld == ev.cpu_stepped /\ ev.flag_before /\ apu_flag(apu)

\* C10: step_frame is infallible: no integer addition executed by the bus
\* during a DMC fetch (or anywhere else in step_frame) leaves its range, and
\* step_frame does not panic.
C10_StepFrameInfallible == ~ev.overflow /\ drv.phase # "panicked"

\* C10, for images whose PRG ROM is 16 KiB: the DMC fetch stays in range
C10_SmallImageInfallible ==
    PrgLen(cart) = 16384 => (~ev.overflow /\ drv.phase # "panicked")

\* C10: the DMC fetches a sample byte from a 32 KiB image
C10_DmcFetch == ev.dmc_fetch /\ PrgLen(cart) = 32768

\* C14: the byte the DMC fetches from an address in 0x8000-0xFFFF through
\* its reader is the byte a CPU read of that address returns through the
\* mapper's PRG banking.
C14_DmcReadsThroughMapper ==
    (ev.dmc_fetch /\ drv.phase # "panicked")
        => ev.dmc_byte = Cartridge_cpu_read(cart, ev.dmc_addr)

\* C14 as the code has it: the reader's bounds test fails for every sample
\* address of a 16 KiB or 32 KiB image and the DMC is handed 0.
C14_DmcReadsZero ==
    (ev.dmc_fetch /\ drv.phase # "panicked") => ev.dmc_byte = 0

\* C14: the DMC fetched a byte from cartridge space
C14_DmcFetched == ev.dmc_fetch /\ drv.phase # "panicked" /\ ev.dmc_addr >= 32768

---------------------------------------------------------------------------
(* One-screen mirroring: an MMC1 cartridge whose program selects one-screen *)
(* lower or upper mirroring through the control register and then writes    *)
(* and reads a nametable byte through PPUDATA.                              *)

MaxTicksVram == 230

InitVram ==
    \E kind \in {"Emulator", "NesEmulator"} :
        Power(kind, Cartridge_load("Mmc1", "Horizontal", 2, 1), "vram", FuelVram,
              MaxTicksVram, FALSE)

NextVram == BeginFrame \/ Tick

SpecVram == InitVram /\ [][NextVram]_vars

\* C9: with OneScreenLower mirroring every nametable address maps to VRAM
\* bank 0 (offsets 0..0x3FF) and with OneScreenUpper to VRAM bank 1
\* (offsets 0x400..0x7FF), for reads and for writes.
C9_OneScreenBanks ==
    ev.vram_index >= 0 =>
        /\ ppu.mirroring = "OneScreenLower" => ev.vram_index \in 0..1023
        /\ ppu.mirroring = "OneScreenUpper" => ev.vram_index \in 1024..2047

\* C9, as the code has it: both one-screen modes map every nametable
\* address to bank 0.
C9_OneScreenBankZero ==
    (ev.vram_index >= 0 /\ ppu.mirroring \in {"OneScreenLower", "OneScreenUpper"})
        => ev.vram_index \in 0..1023

\* C9: a PPUDATA write to a nametable address under OneScreenUpper
C9_UpperWrite ==
    ev.vram_index >= 0 /\ ppu.mirroring = "OneScreenUpper" /\ ev.wrote = 8199

\* C9: a PPUDATA read of a nametable address under OneScreenUpper
C9_UpperRead ==
    ev.vram_index >= 0 /\ ppu.mirroring = "OneScreenUpper" /\ ev.executed = "LDA_abs"

\* C9: a PPUDATA write to a nametable address under OneScreenLower
C9_LowerWrite ==
    ev.vram_index >= 0 /\ ppu.mirroring = "OneScreenLower" /\ ev.wrote = 8199

---------------------------------------------------------------------------
(* The MMC1 serial port: a session in which the CPU writes single bytes to  *)
(* the cartridge (MemoryBus::write), the way five STA instructions to       *)
(* 0x8000-0xFFFF load one MMC1 register.  drv.serial counts the writes with *)
(* bit 7 clear since the shifter was last empty, drv.bits holds the bits    *)
(* they carried (first write in bit 0) and drv.before the mapper before the *)
(* write.                                                                   *)

Mmc1Addrs == {32768, 40960, 49152, 65535}

Mmc1Values == {0, 1, 128}

\* MemoryBus::write called with (addr, value)
BusWriteStep(addr, value) ==
    LET done(s) ==
            /\ cpu' = s.cpu /\ ppu' = s.ppu /\ apu' = s.apu /\ cart' = s.cart
            /\ bus' = s.bus
            /\ ev' = [s.ev EXCEPT !.wrote = addr, !.wrote_value = value]
    IN  done(Bus_write(Sys, addr, value))

Mmc1Write ==
    \E addr \in Mmc1Addrs, value \in Mmc1Values :
        LET bit == And(value, 1)
        IN  /\ BusWriteStep(addr, value)
            /\ drv' = [drv EXCEPT
                         !.before = cart.mapper,
                         !.serial = IF value >= 128 \/ drv.serial = 4 THEN 0
                                    ELSE drv.serial + 1,
                         !.bits = IF value >= 128 THEN 0
                                  ELSE IF drv.serial = 0 THEN bit
                                  ELSE drv.bits + bit * Pow2(drv.serial)]

InitMmc1 ==
    \E banks \in {<<2, 1>>, <<2, 0>>} :
        Power("Emulator", Cartridge_load("Mmc1", "Horizontal", banks[1], banks[2]),
              "none", 0, 0, FALSE)

NextMmc1 == Mmc1Write

SpecMmc1 == InitMmc1 /\ [][NextMmc1]_vars

\* The MMC1 registers and the bank offsets derived from them
Mmc1Registers(m) ==
    <<m.mirroring, m.chr_mode, m.prg_mode, m.prg_reg, m.chr1_reg, m.chr2_reg,
      m.prg_bank1_offset, m.prg_bank2_offset, m.chr_bank1_offset, m.chr_bank2_offset>>

\* The last action was a write to the serial port with bit 7 clear
SerialWrite == ev.wrote >= 32768 /\ ev.wrote_value < 128

\* The register the five accumulated bits were routed to holds them
\* (bank values masked by the clamps; with CHR RAM the CHR registers' bit 4
\* is the high PRG bit)
Mmc1Committed(m, sel) ==
    CASE sel = 32768 ->
            /\ m.mirroring = CASE And(drv.bits, 3) = 0 -> "OneScreenLower"
                               [] And(drv.bits, 3) = 1 -> "OneScreenUpper"
                               [] And(drv.bits, 3) = 2 -> "Vertical"
                               [] OTHER -> "Horizontal"
            /\ m.chr_mode = (drv.bits \div 16) % 2
            /\ m.prg_mode = (drv.bits \div 4) % 4
      [] sel = 40960 ->
            IF m.has_chr_ram
            THEN And(m.prg_reg, 16) = And(And(drv.bits, 16), m.prg_clamp)
            ELSE m.chr1_reg = And(drv.bits, m.chr_clamp)
      [] sel = 49152 ->
            IF m.has_chr_ram
            THEN And(m.prg_reg, 16) = And(And(drv.bits, 16), m.prg_clamp)
            ELSE m.chr2_reg = And(drv.bits, m.chr_clamp)
      [] OTHER ->
            And(m.prg_reg, 15) = And(And(drv.bits, 15), m.prg_clamp)

\* C11: the first four writes with bit 7 clear to an empty MMC1 shifter
\* leave the registers and the bank offsets unchanged; the fifth write
\* commits the five bits to the register selected by its address & 0xE000
\* (0x8000 control, 0xA000 CHR bank 0, 0xC000 CHR bank 1, 0xE000 PRG bank)
\* and resets the shifter.
C11_FifthWriteCommits ==
    SerialWrite =>
        IF drv.serial # 0
        THEN Mmc1Registers(cart.mapper) = Mmc1Registers(drv.before)
        ELSE /\ cart.mapper.shift_reg = REG_INIT
             /\ Mmc1Committed(cart.mapper, And(ev.wrote, 57344))

\* C11 as the code has it: the fifth write to 0xC000-0xDFFF is discarded
\* while the control register selects 8 KiB CHR mode.
C11_FifthWriteCommitsOrDiscards ==
    SerialWrite =>
        IF drv.serial # 0
        THEN Mmc1Registers(cart.mapper) = Mmc1Registers(drv.before)
        ELSE /\ cart.mapper.shift_reg = REG_INIT
             /\ IF And(ev.wrote, 57344) = 49152 /\ drv.before.chr_mode = 0
                THEN Mmc1Registers(cart.mapper) = Mmc1Registers(drv.before)
                ELSE Mmc1Committed(cart.mapper, And(ev.wrote, 57344))

\* A fifth write to 0xC000-0xDFFF carrying a non-zero bank number arrived
\* on a CHR-ROM cartridge
C11_FifthWriteToChrBank1 ==
    /\ SerialWrite /\ drv.serial = 0 /\ And(ev.wrote, 57344) = 49152
    /\ ~cart.mapper.has_chr_ram /\ And(drv.bits, cart.mapper.chr_clamp) # 0

---------------------------------------------------------------------------
(* The MMC3 scanline counter: a session in which the CPU writes the IRQ     *)
(* registers and the PPU side clocks the counter.  drv.clocks counts the    *)
(* clock_scanline invocations since the last reload request that was made   *)
(* with no IRQ pending; it is -1 when there is no such request, or when the *)
(* latch was rewritten, the IRQ disabled or a clock arrived with the IRQ    *)
(* disabled since.                                                          *)

LatchValues == {0, 1, 2, 3, 7, 8, 64, 255}

\* A CPU write to an MMC3 IRQ register
Mmc3Write ==
    \E addr \in {49152, 49153, 57344, 57345} :
        \E value \in IF addr = 49152 THEN LatchValues ELSE {0} :
            /\ BusWriteStep(addr, value)
            /\ drv' = [drv EXCEPT
                         !.clocks = CASE addr = 49153 ->
                                            IF cart.mapper.irq_pending THEN -1 ELSE 0
                                      [] addr = 57345 -> drv.clocks
                                      [] OTHER -> -1]

\* Cartridge::clock_scanline called
ClockScanline ==
    /\ cart' = clock_scanline(cart)
    /\ ev' = [ev0 EXCEPT !.clocked = TRUE]
    /\ drv' = [drv EXCEPT
                 !.clocks = IF drv.clocks < 0 \/ ~cart.mapper.irq_enabled THEN -1
                            ELSE IF cart.mapper.irq_pending THEN drv.clocks
                            ELSE drv.clocks + 1]
    /\ UNCHANGED <<cpu, ppu, apu, bus>>

InitMmc3 ==
    Power("Emulator", Cartridge_load("Mmc3", "Vertical", 2, 1), "none", 0, 0, FALSE)

NextMmc3 == Mmc3Write \/ ClockScanline

SpecMmc3 == InitMmc3 /\ [][NextMmc3]_vars

\* C12: with the IRQ enabled and latch value L, the pending flag is first
\* set by the (L+1)-th clock_scanline invocation after a reload request
\* (write to 0xC001), and by no earlier one.
C12_PendingOnClockLPlus1 ==
    drv.clocks >= 0 =>
        /\ drv.clocks <= cart.mapper.irq_latch + 1
        /\ cart.mapper.irq_pending <=> drv.clocks = cart.mapper.irq_latch + 1

\* The flag was raised by the 256th clock after a reload with latch 255
C12_PendingAfter256 ==
    /\ drv.clocks = 256 /\ cart.mapper.irq_latch = 255 /\ cart.mapper.irq_pending
    /\ ev.clocked

---------------------------------------------------------------------------
(* The controller ports: a session in which the host sets the buttons of    *)
(* controller 2 and the CPU strobes the controllers, starts and stops the   *)
(* DMC through 0x4015 and reads the ports, the reset vector and RAM.        *)

PadButtons == {0, 1, 165}

\* MemoryBus::read called with addr
BusReadStep(addr) ==
    LET done(r) ==
            /\ cpu' = r.s.cpu /\ ppu' = r.s.ppu /\ apu' = r.s.apu /\ cart' = r.s.cart
            /\ bus' = r.s.bus
            /\ ev' = [r.s.ev EXCEPT !.read = addr, !.read_value = r.value]
    IN  /\ done(Bus_read(Sys, addr))
        /\ UNCHANGED drv

\* The host sets the button fields of controller 2
SetButtons ==
    /\ \E b \in PadButtons : bus' = [bus EXCEPT !.input.controller2.buttons = b]
    /\ ev' = ev0
    /\ UNCHANGED <<cpu, ppu, apu, cart, drv>>

PadWrite ==
    /\ \E w \in {<<16406, 0>>, <<16406, 1>>, <<16405, 0>>, <<16405, 16>>} :
           BusWriteStep(w[1], w[2])
    /\ UNCHANGED drv

PadRead == \E addr \in {16406, 16407, 65532, 65533} : BusReadStep(addr)

InitPad == Power("Emulator", Cartridge_load("Nrom", "Horizontal", 2, 1), "none", 0, 0, FALSE)

NextPad == SetButtons \/ PadWrite \/ PadRead

SpecPad == InitPad /\ [][NextPad]_vars

\* C13: a CPU read of 0x4017 returns controller 2's next serial bit in bit
\* 0, zero in bits 1-4 and the open-bus latch in bits 5-7, whatever the
\* state of the APU.
C13_Port2IsController2 ==
    ev.read = 16407 => ev.read_value = Or(And(bus.open_bus, 224), ev.pad_bit)

\* C13 as the code has it: the low five bits of the APU status are or-ed in.
C13_Port2WithoutDmc ==
    (ev.read = 16407 /\ apu.dmc.bytes_remaining = 0)
        => ev.read_value = Or(And(bus.open_bus, 224), ev.pad_bit)

\* 0x4017 was read while the DMC had bytes left to play
C13_Port2ReadDuringDmc == ev.read = 16407 /\ apu.dmc.bytes_remaining > 0

---------------------------------------------------------------------------
(* UxROM bank selection: a session in which the CPU writes bank numbers to  *)
(* cartridge space.                                                         *)

UxromBanks == {1, 2, 4, 8, 16}

UxromValues == {0, 1, 2, 3, 5, 7, 8, 9, 15, 16, 130, 255}

UxromWrite ==
    /\ \E addr \in {32768, 49152, 65535}, value \in UxromValues :
           BusWriteStep(addr, value)
    /\ UNCHANGED drv

InitUxrom ==
    \E n \in UxromBanks :
        Power("Emulator", Cartridge_load("Uxrom", "Vertical", n, 0), "none", 0, 0, FALSE)

NextUxrom == UxromWrite

SpecUxrom == InitUxrom /\ [][NextUxrom]_vars

\* After a write of v to the bank register of a cartridge with n banks, the
\* CPU reads 0x8000-0xBFFF from bank b
ReadsFromBank(b) ==
    \A a \in {32768, 40000, 49151} :
        Cartridge_cpu_read(cart, a) = PrgRom(cart, b * 16384 + (a - 32768))

\* C15: a write of any value v to 0x8000-0xFFFF of a UxROM cartridge with n
\* banks (n a power of two up to 16) makes 0x8000-0xBFFF read from bank
\* v mod n.
C15_WriteSelectsBank ==
    ev.wrote >= 32768 => ReadsFromBank(ev.wrote_value % cart.prg_banks)

\* C15 as the code has it: only the low three bits of v select the bank.
C15_WriteSelectsBankOf8 ==
    ev.wrote >= 32768 => ReadsFromBank((ev.wrote_value % 8) % cart.prg_banks)

\* A bank number of 8 or more was written to a cartridge with 16 banks
C15_UpperBankWritten ==
    ev.wrote >= 32768 /\ cart.prg_banks = 16 /\ ev.wrote_value % 16 >= 8

---------------------------------------------------------------------------
(* The frame sequencer: a session in which the APU is stepped one CPU cycle *)
(* at a time (MemoryBus::step_apu(1)) and the CPU may write the frame       *)
(* counter register 0x4017 during the first cycles.  drv.since counts the   *)
(* APU cycles executed since power-on or the last write to 0x4017, so the   *)
(* cycle that has just run is cycle drv.since - 1 of the run.               *)

MaxCyclesSeq == 40000

WriteWindowSeq == 1

\* MemoryBus::step_apu(1)
ApuStep ==
    LET done(s) ==
            /\ cpu' = s.cpu /\ ppu' = s.ppu /\ apu' = s.apu /\ cart' = s.cart
            /\ bus' = s.bus /\ ev' = s.ev
    IN  /\ drv.clock < drv.limit
        /\ done(step_apu(Sys, 1))
        /\ drv' = [drv EXCEPT !.clock = drv.clock + 1, !.since = drv.since + 1]

\* A CPU write to the frame counter register
SeqWrite ==
    /\ drv.clock <= WriteWindowSeq
    /\ drv.fuel > 0
    /\ \E value \in {0, 128} : BusWriteStep(16407, value)
    /\ drv' = [drv EXCEPT !.since = 0, !.fuel = drv.fuel - 1]

InitSeq ==
    Power("Emulator", Cartridge_load("Nrom", "Horizontal", 1, 1), "none", 1,
          MaxCyclesSeq, FALSE)

NextSeq == ApuStep \/ SeqWrite

SpecSeq == InitSeq /\ [][NextSeq]_vars

\* C16: in a run of APU cycles without a write to 0x4017 the pulse and
\* noise timers are clocked on exactly every other CPU cycle: never on two
\* consecutive cycles, and never skipped on two consecutive cycles.
C16_TimersEveryOtherCycle ==
    (ev.wrote = -1 /\ drv.since >= 2) => ev.timer # ev.timer_prev

\* C16 as the code has it: alternation holds except across a wrap of the
\* frame sequencer, where cycle_count goes from an odd value to 1.
C16_TimersAlternateWithinSequence ==
    (ev.wrote = -1 /\ drv.since >= 2 /\ apu.cycle_count # 2)
        => ev.timer # ev.timer_prev

\* C16: the cycle after a sequencer wrap has run
C16_CycleAfterWrap == ev.wrote = -1 /\ drv.since > 29830 /\ apu.cycle_count = 2

\* The quarter-frame offsets of the 4-step sequence
QuarterOffsets == {7457, 14913, 22371, 29829}

\* C17: in 4-step mode with no write to 0x4017 every sequence clocks quarter
\* frames 7457, 14913, 22371 and 29829 CPU cycles after its start, and
\* consecutive sequences start 29,830 CPU cycles apart.
C17_QuarterFrameTimes ==
    (ev.wrote = -1 /\ drv.since >= 1 /\ ~apu.frame_counter_mode)
        => (ev.quarter <=> ((drv.since - 1) % 29830) \in QuarterOffsets)

\* C17 as the code has it: the first sequence is 29,830 cycles long and
\* every later one 29,829.
C17_QuarterFrameTimesShortened ==
    (ev.wrote = -1 /\ drv.since >= 1 /\ ~apu.frame_counter_mode)
        => (ev.quarter <=>
               IF drv.since - 1 < 29830 THEN (drv.since - 1) \in QuarterOffsets
               ELSE (((drv.since - 1) - 29830) % 29829) + 1 \in QuarterOffsets)

\* C17: the first quarter frame of the second sequence was clocked
C17_SecondSequenceQuarter ==
    ev.wrote = -1 /\ ~apu.frame_counter_mode /\ ev.quarter /\ drv.since - 1 > 29830

---------------------------------------------------------------------------
(* The frame IRQ under the drivers: a program that clears the I flag and    *)
(* writes 0x00 to 0x4017, then loops; the run crosses one step_frame call.  *)

MaxTicksFirq == 89530

InitFirq ==
    \E kind \in Drivers :
        Power(kind, Cartridge_load("Nrom", "Horizontal", 1, 1), "firq", FuelFirq,
              MaxTicksFirq, FALSE)

NextFirq == BeginFrame \/ Tick \/ EndFrame

SpecFirq == InitFirq /\ [][NextFirq]_vars

---------------------------------------------------------------------------
(* The stalled CPU: a program that starts an OAM DMA and then loops; the    *)
(* run lasts until the stall is over and the next instruction has run.      *)

MaxTicksStall == 1600

InitStall ==
    \E kind \in Drivers :
        Power(kind, Cartridge_load("Nrom", "Horizontal", 1, 1), "stall", FuelStall,
              MaxTicksStall, FALSE)

NextStall == BeginFrame \/ Tick

SpecStall == InitStall /\ [][NextStall]_vars

\* C19: a Cpu::step called with a non-zero stall counter returns 1 cycle,
\* fetches and executes nothing, accesses nothing on the bus and changes
\* only the stall counter (minus one) and the cycle counter (plus one); a
\* step called with the counter at zero fetches an instruction.
C19_StallStepOnlyCounts ==
    ev.cpu_stepped =>
        IF ev.stall_before > 0
        THEN /\ ev.step_cycles = 1
             /\ ev.executed = "none" /\ ev.wrote = -1 /\ ev.quiet
             /\ ev.cpu_out = [ev.cpu_in EXCEPT !.stall_cycles = ev.stall_before - 1,
                                               !.cycles = ev.cpu_in.cycles + 1]
        ELSE ev.executed # "none"

\* C19: the stall step that brings the counter to zero has run
C19_LastStallStep ==
    ev.cpu_stepped /\ ev.stall_before = 1 /\ ev.cpu_out.stall_cycles = 0

\* The first instruction after a stall has been fetched
C19_FetchAfterStall ==
    ev.cpu_stepped /\ ev.stall_before = 0 /\ ev.executed = "JMP_abs" /\ cpu.cycles > 512
---------------------------------------------------------------------------
(* Mirroring: a session in which the CPU writes mapper registers of an MMC1 *)
(* or MMC3 cartridge, sets the VRAM address through PPUADDR, reads and      *)
(* writes nametable bytes through PPUDATA, and the PPU steps.  drv.writes   *)
(* counts the mapper writes and drv.accesses the PPUDATA accesses.          *)

MaxAccesses == 1

MaxDots == 1

MaxMapperWrites == 6

MirrorAddrs == {32768, 40960}

MirrorValues == {0, 1}

VramAddrBytes == {36}

\* A CPU write to cartridge space
MirrorWrite ==
    /\ drv.writes < MaxMapperWrites
    /\ \E addr \in MirrorAddrs, value \in MirrorValues :
           /\ BusWriteStep(addr, value)
           /\ drv' = [drv EXCEPT !.before = cart.mapper, !.writes = drv.writes + 1]

\* A CPU write to PPUADDR
VramAddrWrite ==
    \E value \in VramAddrBytes :
        /\ BusWriteStep(8198, value)
        /\ UNCHANGED drv

\* A CPU write to PPUDATA
VramDataWrite ==
    /\ drv.accesses < MaxAccesses
    /\ BusWriteStep(8199, 7)
    /\ drv' = [drv EXCEPT !.accesses = drv.accesses + 1]

\* A CPU read of PPUDATA with vram_addr outside the pattern tables
VramDataRead ==
    /\ drv.accesses < MaxAccesses
    /\ And(ppu.vram_addr, 16383) >= 8192
    /\ LET done(r) ==
               /\ cpu' = r.s.cpu /\ ppu' = r.s.ppu /\ apu' = r.s.apu
               /\ cart' = r.s.cart /\ bus' = r.s.bus
               /\ ev' = [r.s.ev EXCEPT !.read = 8199, !.read_value = r.value]
       IN  done(Bus_read(Sys, 8199))
    /\ drv' = [drv EXCEPT !.accesses = drv.accesses + 1]

\* MemoryBus::step_ppu called once
PpuDot ==
    /\ ppu.cycle < MaxDots
    /\ LET done(s) ==
               /\ cpu' = s.cpu /\ ppu' = s.ppu /\ apu' = s.apu /\ cart' = s.cart
               /\ bus' = s.bus /\ ev' = s.ev
       IN  done(step_ppu(Sys))
    /\ UNCHANGED drv

InitMirror ==
    \E c \in {<<"Mmc1", "Horizontal">>, <<"Mmc1", "Vertical">>,
              <<"Mmc3", "Horizontal">>, <<"Mmc3", "Vertical">>,
              <<"Mmc3", "FourScreen">>} :
        Power("Emulator", Cartridge_load(c[1], c[2], 2, 1), "none", 0, 0, FALSE)

NextMirror == MirrorWrite \/ VramAddrWrite \/ VramDataWrite \/ VramDataRead \/ PpuDot

SpecMirror == InitMirror /\ [][NextMirror]_vars

\* C20: the PPU's mirroring mode is the mapper's current mirroring in every
\* state the session reaches, so at every nametable access and before every
\* PPU step: it is so when the session is created, and a CPU write to
\* 0x8000-0xFFFF that changes the mapper's mirroring installs the new mode
\* in the PPU within the write.
C20_PpuMirroringIsMappers == ppu.mirroring = cart.mapper.mirroring

\* C20: a PPUDATA access to a nametable after a write to 0x8000-0xFFFF has
\* changed the mapper's mirroring from the one the header gave
C20_NametableAccessAfterChange ==
    /\ ev.vram_index >= 0
    /\ cart.mapper.mirroring # cart.mirroring

\* C20: a write to 0x8000-0xFFFF changed the mapper's mirroring
C20_MirroringChanged ==
    ev.wrote >= 32768 /\ cart.mapper.mirroring # drv.before.mirroring
---------------------------------------------------------------------------
(* The open-bus latch: a session of single CPU reads and writes.            *)
(* drv.latched is the byte returned by the most recent read of an address   *)
(* other than 0x4015, 0x4016 and 0x4017 (-1 before the first one),         *)
(* drv.latched_prev its value before the last action, and drv.ported tells  *)
(* that one of those three addresses was read since that read.              *)

LatchReadAddrs == {0, 8194, 16384, 16404, 16405, 16406, 16407, 16408, 16415, 24576, 65532}

LatchWrites == {<<0, 18>>, <<16406, 1>>, <<16406, 0>>, <<16405, 15>>, <<16387, 8>>,
                <<24576, 52>>}

LatchRead ==
    \E addr \in LatchReadAddrs :
        LET done(r) ==
                /\ cpu' = r.s.cpu /\ ppu' = r.s.ppu /\ apu' = r.s.apu
                /\ cart' = r.s.cart /\ bus' = r.s.bus
                /\ ev' = [r.s.ev EXCEPT !.read = addr, !.read_value = r.value]
                /\ drv' = [drv EXCEPT
                             !.latched = IF addr \in {16405, 16406, 16407}
                                         THEN drv.latched ELSE r.value,
                             !.latched_prev = drv.latched,
                             !.ported = IF addr \in {16405, 16406, 16407} THEN TRUE
                                        ELSE IF addr \in 16408..16415 THEN drv.ported
                                        ELSE FALSE]
        IN  done(Bus_read(Sys, addr))

LatchWrite ==
    \E w \in LatchWrites :
        /\ BusWriteStep(w[1], w[2])
        /\ drv' = [drv EXCEPT !.latched_prev = drv.latched]

InitLatch ==
    \E kind \in {"Nrom", "Mmc1"} :
        Power("Emulator", Cartridge_load(kind, "Horizontal", 2, 1), "none", 0, 0, FALSE)

NextLatch == LatchRead \/ LatchWrite

SpecLatch == InitLatch /\ [][NextLatch]_vars

\* C21: once a read of an address other than 0x4015, 0x4016 and 0x4017 has
\* returned byte B, a read of an address in 0x4018..0x401F returns B when no
\* other such read happened in between, however many reads of 0x4015, 0x4016
\* or 0x4017 (and writes) did.
C21_UnmappedReadReturnsLatch ==
    (ev.read \in 16408..16415 /\ drv.latched_prev >= 0)
        => ev.read_value = drv.latched_prev

\* C21: an unmapped address was read after the latch had taken a byte other
\* than its initial one and a controller port or the APU status had been
\* read since
C21_UnmappedReadAfterPortRead ==
    /\ ev.read \in 16408..16415
    /\ drv.latched_prev \in 0..255 \ {64}
    /\ drv.ported
---------------------------------------------------------------------------
(* The controller strobe: a session in which the shell changes controller   *)
(* 1's buttons and the CPU writes 0x4016 and reads it.  drv.edge holds the  *)
(* buttons at the last falling edge of the strobe (-1 before the first) and *)
(* drv.shifted the controller's read_count before the last read.            *)

StrobeButtons == {0, 1, 2, 129}

\* The shell sets the button fields of controller 1 (Input::update_from_keyboard,
\* the Android binding's pressButton / releaseButton)
SetButtons1 ==
    /\ \E b \in StrobeButtons : bus' = [bus EXCEPT !.input.controller1.buttons = b]
    /\ ev' = ev0
    /\ UNCHANGED <<cpu, ppu, apu, cart, drv>>

StrobeWrite ==
    \E value \in {0, 1} :
        /\ BusWriteStep(16406, value)
        /\ drv' = [drv EXCEPT !.edge = IF bus.input.strobe /\ value = 0
                                       THEN bus.input.controller1.buttons
                                       ELSE drv.edge]

StrobeRead ==
    LET done(r) ==
            /\ cpu' = r.s.cpu /\ ppu' = r.s.ppu /\ apu' = r.s.apu
            /\ cart' = r.s.cart /\ bus' = r.s.bus
            /\ ev' = [r.s.ev EXCEPT !.read = 16406, !.read_value = r.value]
            /\ drv' = [drv EXCEPT !.shifted = bus.input.controller1.read_count]
    IN  done(Bus_read(Sys, 16406))

InitStrobe ==
    Power("Emulator", Cartridge_load("Nrom", "Horizontal", 2, 1), "none", 0, 0, FALSE)

NextStrobe == SetButtons1 \/ StrobeWrite \/ StrobeRead

SpecStrobe == InitStrobe /\ [][NextStrobe]_vars

\* The bit of the buttons latched at the last falling edge that a read
\* returns when drv.shifted reads came before it (0 from the ninth read on)
LatchedBit == IF drv.shifted < 8 THEN And(drv.edge \div Pow2(drv.shifted), 1) ELSE 0

\* C22: once the strobe has had a falling edge, every read of 0x4016 returns
\* a bit of the buttons latched at the last falling edge, whatever the shell
\* has done to the buttons since.
C22_ReadsReturnLatchedButtons ==
    (ev.read = 16406 /\ drv.edge >= 0) => ev.pad_bit = LatchedBit

\* C22 as the code has it: that holds of the reads made while the strobe is
\* low; while it is high a read returns the A button as it is now.
C22_ReadsReturnLatchedWhileLow ==
    (ev.read = 16406 /\ drv.edge >= 0) =>
        ev.pad_bit = IF bus.input.strobe THEN And(bus.input.controller1.buttons, 1)
                     ELSE LatchedBit

\* C22: 0x4016 was read while the strobe was high and the buttons differed
\* from the ones latched at the last falling edge
C22_ReadWhileStrobeHigh ==
    /\ ev.read = 16406 /\ drv.edge >= 0 /\ bus.input.strobe
    /\ bus.input.controller1.buttons # drv.edge
---------------------------------------------------------------------------
(* Save RAM: a session in which the game writes PRG RAM and the shell calls *)
(* set_sram with a buffer and get_sram.  A buffer is given by its length    *)
(* and a seed: its byte i is SramByte(seed, i).  drv.api names the last     *)
(* call of the shell, drv.x_len and drv.x_seed the buffer it passed.        *)

PRG_RAM_LEN == 8192

SramLens == {0, 1, 8192, 8193}

SramSeeds == {0, 9}

SramByte(seed, i) == (seed + i * 7) % 256

\* Emulator::set_sram / EmulationState::set_sram: the PRG RAM after the call
\* with the buffer (len, seed)
set_sram(b, len, seed) ==
    LET n == IF len < PRG_RAM_LEN THEN len ELSE PRG_RAM_LEN
    IN  [b EXCEPT !.prg_ram = [k \in DOMAIN b.prg_ram \cup 0..(n - 1) |->
                                   IF k < n THEN SramByte(seed, k) ELSE b.prg_ram[k]]]

\* Emulator::get_sram / EmulationState::get_sram: the slice returned, as its
\* length and its cells
get_sram(b) == [len |-> PRG_RAM_LEN, cells |-> b.prg_ram]

SetSram ==
    \E len \in SramLens, seed \in SramSeeds :
        /\ bus' = set_sram(bus, len, seed)
        /\ ev' = ev0
        /\ drv' = [drv EXCEPT !.api = "set_sram", !.x_len = len, !.x_seed = seed]
        /\ UNCHANGED <<cpu, ppu, apu, cart>>

SramCpuWrite ==
    \E w \in {<<24576, 52>>, <<32767, 77>>} :
        /\ BusWriteStep(w[1], w[2])
        /\ drv' = [drv EXCEPT !.api = "write"]

InitSram ==
    \E kind \in {"Emulator", "EmulationState"} :
        Power(kind, Cartridge_load("Nrom", "Horizontal", 2, 1), "none", 0, 0, FALSE)

NextSram == SetSram \/ SramCpuWrite

SpecSram == InitSram /\ [][NextSram]_vars

\* C23: after set_sram(x) with a buffer x of at most 8192 bytes, get_sram()
\* is x: it has x's length and x's bytes.
C23_SramRoundTrip ==
    (drv.api = "set_sram" /\ drv.x_len <= PRG_RAM_LEN) =>
        /\ get_sram(bus).len = drv.x_len
        /\ \A i \in 0..(drv.x_len - 1) :
               At(get_sram(bus).cells, i, 0) = SramByte(drv.x_seed, i)

\* C23 as the code has it: get_sram() is always the whole 8192-byte array,
\* which begins with the first 8192 bytes of x.
C23_SramPrefix ==
    drv.api = "set_sram" =>
        /\ get_sram(bus).len = PRG_RAM_LEN
        /\ \A i \in 0..(PRG_RAM_LEN - 1) :
               i < drv.x_len => At(get_sram(bus).cells, i, 0) = SramByte(drv.x_seed, i)

\* C23: set_sram was called with a buffer shorter than the PRG RAM after the
\* game had written a byte beyond the buffer's end
C23_ShortBufferLoaded ==
    /\ drv.api = "set_sram" /\ drv.x_len = 1
    /\ At(bus.prg_ram, 8191, 0) = 77
---------------------------------------------------------------------------
(* PRG banking: sessions on images of every mapper and of several PRG       *)
(* sizes (header byte 4, zero included: Cartridge::load accepts it) in      *)
(* which the CPU writes the mappers' bank registers.  UxROM images with no  *)
(* PRG bank are left out: there the remainders by prg_rom.len() and by      *)
(* prg_banks divide by zero.                                                *)

BankCarts ==
    {<<"Nrom", 0, 1>>, <<"Nrom", 1, 1>>, <<"Nrom", 2, 1>>, <<"Nrom", 3, 1>>,
     <<"Cnrom", 0, 4>>, <<"Cnrom", 1, 4>>, <<"Cnrom", 2, 8>>,
     <<"Uxrom", 1, 0>>, <<"Uxrom", 3, 0>>, <<"Uxrom", 8, 0>>,
     <<"Mmc1", 0, 1>>, <<"Mmc1", 3, 1>>, <<"Mmc1", 32, 0>>,
     <<"Mmc3", 0, 1>>, <<"Mmc3", 1, 1>>, <<"Mmc3", 3, 1>>, <<"Mmc3", 32, 1>>}

BankAddrs == {32768, 32769, 40960, 57344}

BankValues == {6, 71, 128}

\* The addresses at the ends of the four 8 KiB windows of 0x8000-0xFFFF
PrgProbes == {32768, 40959, 40960, 49151, 49152, 57343, 57344, 65535}

BankWrite ==
    /\ drv.phase = "idle"
    /\ \E addr \in BankAddrs, value \in BankValues : BusWriteStep(addr, value)
    /\ UNCHANGED drv

InitBanks ==
    \E c \in BankCarts :
        Power("Emulator", Cartridge_load(c[1], "Horizontal", c[2], c[3]), "none", 0, 0,
              FALSE)

NextBanks == BankWrite

SpecBanks == InitBanks /\ [][NextBanks]_vars

\* The PRG bank offsets a mapper holds (MMC1, MMC3) or computes in cpu_read
\* (UxROM)
PrgBankOffsets(c) ==
    CASE c.mapper.kind = "Mmc1" -> {c.mapper.prg_bank1_offset, c.mapper.prg_bank2_offset}
      [] c.mapper.kind = "Mmc3" -> {c.mapper.prg_bank_offsets[i] : i \in 1..4}
      [] c.mapper.kind = "Uxrom" ->
            {(c.mapper.prg_bank * 16384) % PrgLen(c),
             ((c.mapper.prg_banks - 1) * 16384) % PrgLen(c)}
      [] OTHER -> {}

\* C24: for every mapper and every mapper state, each PRG bank offset is
\* less than the PRG ROM length and the index cpu_read uses for an address
\* of 0x8000-0xFFFF lies inside the PRG ROM.
C24_PrgOffsetsInside ==
    /\ \A o \in PrgBankOffsets(cart) : o < PrgLen(cart)
    /\ \A addr \in PrgProbes :
           prg_rom_index(cart, addr) # -1 => prg_rom_index(cart, addr) \in 0..(PrgLen(cart) - 1)

\* C24 as the code has it: that holds of the images that have PRG ROM.
C24_PrgOffsetsInsideNonEmpty ==
    PrgLen(cart) > 0 =>
        /\ \A o \in PrgBankOffsets(cart) : o < PrgLen(cart)
        /\ \A addr \in PrgProbes :
               prg_rom_index(cart, addr) \in 0..(PrgLen(cart) - 1)

\* C24: an NROM image without PRG ROM was loaded and the read of the reset
\* vector indexed the empty array
C24_EmptyNromLoaded ==
    cart.mapper.kind = "Nrom" /\ PrgLen(cart) = 0 /\ drv.phase = "panicked"

\* C24: a bank register of a mapper on an image with PRG ROM was written
C24_BankSwitched ==
    /\ ev.wrote >= 32768 /\ PrgLen(cart) > 16384
    /\ \E o \in PrgBankOffsets(cart) : o > 0 /\ o < PrgLen(cart) - 16384
---------------------------------------------------------------------------
(* Status pushes: a session in which the CPU executes instructions that     *)
(* load, push and pull the status register and the driver delivers NMIs and *)
(* IRQs.  drv.clock counts the steps.                                       *)

MaxPushSteps == 5

PushMenu ==
    UNION {Ins(op, {0}) : op \in {"PHA", "PLP", "PHP", "BRK", "CLI"}}
        \cup Ins("LDA_imm", {0, 16, 255})

\* Cpu::step on one of the instructions of PushMenu
PushStep ==
    /\ drv.clock < drv.limit
    /\ \E ins \in PushMenu :
           LET done(r) ==
                   /\ cpu' = r.s.cpu /\ ppu' = r.s.ppu /\ apu' = r.s.apu
                   /\ cart' = r.s.cart /\ bus' = r.s.bus /\ ev' = r.s.ev
           IN  done(Cpu_step(Sys, ins))
    /\ drv' = [drv EXCEPT !.clock = drv.clock + 1]

\* The driver delivers an NMI (the PPU step returned true)
TakeNmi ==
    /\ drv.clock < drv.limit
    /\ LET done(s) ==
               /\ cpu' = s.cpu /\ ppu' = s.ppu /\ apu' = s.apu /\ cart' = s.cart
               /\ bus' = s.bus /\ ev' = s.ev
       IN  done(trigger_nmi(Sys))
    /\ drv' = [drv EXCEPT !.clock = drv.clock + 1]

\* The driver delivers an IRQ (the APU or the mapper asserts it and I is clear)
TakeIrq ==
    /\ drv.clock < drv.limit
    /\ ~get_flag(cpu.status, FLAG_I)
    /\ LET done(s) ==
               /\ cpu' = s.cpu /\ ppu' = s.ppu /\ apu' = s.apu /\ cart' = s.cart
               /\ bus' = s.bus /\ ev' = s.ev
       IN  done(trigger_irq(Sys))
    /\ drv' = [drv EXCEPT !.clock = drv.clock + 1]

InitPush ==
    Power("Emulator", Cartridge_load("Nrom", "Horizontal", 2, 1), "none", 0, MaxPushSteps,
          FALSE)

NextPush == PushStep \/ TakeNmi \/ TakeIrq

SpecPush == InitPush /\ [][NextPush]_vars

\* C25: every status byte pushed (PHP, BRK, IRQ entry, NMI entry) has bit U
\* set; bit B is set in the bytes pushed by BRK and IRQ and clear in the
\* byte pushed by NMI.
C25_PushedStatusBits ==
    ev.pushed >= 0 =>
        /\ And(ev.pushed, FLAG_U) # 0
        /\ ev.push_kind \in {"BRK", "IRQ"} => And(ev.pushed, FLAG_B) # 0
        /\ ev.push_kind = "NMI" => And(ev.pushed, FLAG_B) = 0

\* C25: an NMI pushed the status after PLP had pulled a byte with every bit
\* set
C25_NmiPushedPulledStatus ==
    ev.push_kind = "NMI" /\ And(ev.pushed, FLAG_C) # 0 /\ And(ev.pushed, FLAG_N) # 0

\* C25: an IRQ pushed the status
C25_IrqPushed == ev.push_kind = "IRQ" /\ ev.pushed >= 0

\* C25: BRK pushed the status
C25_BrkPushed == ev.push_kind = "BRK" /\ ev.pushed >= 0
---------------------------------------------------------------------------
(* PPU frames dot by dot: Ppu::step is called through MemoryBus::step_ppu,  *)
(* and the program writes PPUMASK at the start of the pre-render line or    *)
(* just before the step that decides the odd-frame skip.                    *)

MaxPpuFrames == 2
MaxMaskWrites == 2
MaskValues == {0, 8, 16}
MaskWriteDots == {0, 339}

\* One Ppu::step call.  drv.calls counts the calls since scanline -1 dot 0;
\* drv.on_all / drv.off_all say whether rendering was enabled / disabled at
\* every call of the frame so far.  When the call brings the PPU back to
\* scanline -1 dot 0, drv.frame_len, drv.frame_odd, drv.was_on and
\* drv.was_off describe the frame that ended.
FrameDot ==
    /\ ppu.frame < MaxPpuFrames
    /\ LET rendering == And(ppu.mask, 24) # 0
           n == drv.calls + 1
           done(s) ==
               LET ended == s.ppu.scanline = -1 /\ s.ppu.cycle = 0
               IN  /\ cpu' = s.cpu /\ ppu' = s.ppu /\ apu' = s.apu /\ cart' = s.cart
                   /\ bus' = s.bus /\ ev' = s.ev
                   /\ drv' = [drv EXCEPT
                                !.calls = IF ended THEN 0 ELSE n,
                                !.frame_len = IF ended THEN n ELSE -1,
                                !.frame_odd = ppu.frame % 2 # 0,
                                !.was_on = drv.on_all /\ rendering,
                                !.was_off = drv.off_all /\ ~rendering,
                                !.on_all = ended \/ (drv.on_all /\ rendering),
                                !.off_all = ended \/ (drv.off_all /\ ~rendering),
                                !.at_scanline = ppu.scanline,
                                !.at_cycle = ppu.cycle,
                                !.v_before = ppu.vram_addr]
       IN  done(step_ppu(Sys))

\* A CPU write to PPUMASK that changes it
MaskWrite ==
    \E value \in MaskValues :
        /\ drv.writes < MaxMaskWrites
        /\ ppu.scanline = -1 /\ ppu.cycle \in MaskWriteDots
        /\ value # ppu.mask
        /\ BusWriteStep(8193, value)
        /\ drv' = [drv EXCEPT !.writes = drv.writes + 1, !.frame_len = -1,
                              !.at_cycle = -1]

InitDots ==
    Power("Emulator", Cartridge_load("Nrom", "Horizontal", 1, 1), "none", 0, 0, FALSE)

NextDots == FrameDot \/ MaskWrite

SpecDots == InitDots /\ [][NextDots]_vars

C26_EvenRenderedFrameEnded ==
    drv.frame_len >= 0 /\ ~drv.frame_odd /\ drv.was_on

C26_OddBlankFrameEnded ==
    drv.frame_len >= 0 /\ drv.frame_odd /\ drv.was_off
\* the vertical bits (fine Y, nametable Y, coarse Y) and the horizontal bits
\* (nametable X, coarse X) of a VRAM address
VerticalBits(v) == And(v, 31712)

HorizontalBits(v) == And(v, 1055)

\* the last FrameDot stepped dot c of a visible line / of the pre-render line
\* with rendering enabled
VisibleDot(c) ==
    drv.at_cycle = c /\ drv.at_scanline >= 0 /\ drv.at_scanline < 240
    /\ And(ppu.mask, 24) # 0

PreRenderDot(c) ==
    drv.at_cycle = c /\ drv.at_scanline = -1 /\ And(ppu.mask, 24) # 0

\* C30: on visible scanlines with rendering enabled (background or sprites)
\* the step at dot 256 increments v vertically and the step at dot 257
\* copies the horizontal bits of t into v, as on the pre-render line.
C30_VisibleScrollDots ==
    /\ (VisibleDot(256) \/ PreRenderDot(256))
           => VerticalBits(ppu.vram_addr) = VerticalBits(increment_y(drv.v_before))
    /\ (VisibleDot(257) \/ PreRenderDot(257))
           => /\ HorizontalBits(ppu.vram_addr) = HorizontalBits(ppu.vram_addr_temp)
              /\ VerticalBits(ppu.vram_addr) = VerticalBits(drv.v_before)

\* C30, what the code does: the pre-render line increments at dot 256 and
\* copies at dot 257; a visible line increments at dot 257, and only when the
\* background is enabled, and copies at dot 258.
C30_ScrollDotsInCode ==
    /\ PreRenderDot(256)
           => VerticalBits(ppu.vram_addr) = VerticalBits(increment_y(drv.v_before))
    /\ PreRenderDot(257)
           => HorizontalBits(ppu.vram_addr) = HorizontalBits(ppu.vram_addr_temp)
    /\ VisibleDot(256) => VerticalBits(ppu.vram_addr) = VerticalBits(drv.v_before)
    /\ VisibleDot(257)
           => /\ VerticalBits(ppu.vram_addr) =
                     VerticalBits(IF And(ppu.mask, 8) # 0 THEN increment_y(drv.v_before)
                                  ELSE drv.v_before)
              /\ HorizontalBits(ppu.vram_addr) = HorizontalBits(drv.v_before)
    /\ VisibleDot(258)
           => HorizontalBits(ppu.vram_addr) = HorizontalBits(ppu.vram_addr_temp)

\* C30, its case: dot 256 of a visible line has been stepped with rendering
\* enabled
C30_VisibleDot256Rendered == VisibleDot(256)

\* C30: dot 257 of a visible line has been stepped with the background on,
\* and v then differs from t in its horizontal bits
C30_VisibleDot257Uncopied ==
    VisibleDot(257) /\ HorizontalBits(ppu.vram_addr) # HorizontalBits(ppu.vram_addr_temp)
---------------------------------------------------------------------------
(* Loading an image: Cartridge::load on the bytes of a file, called by the  *)
(* application while a game is running (EmulatorApp::load_rom).  An image   *)
(* is its length, its first four bytes and header bytes 4 to 7; the PRG and *)
(* CHR bytes are those of PrgRom.                                           *)

INES_MAGIC == <<78, 69, 83, 26>>

\* Cartridge::load, the size of the header and the trainer
header_size_no_trainer(flags6) == 16

header_size(flags6) == IF And(flags6, 4) # 0 THEN 16 + 512 ELSE 16

\* Cartridge::load, the mapper number of the header
mapper_id(flags6, flags7) == Or((And(flags7, 240) \div 16) * 16, flags6 \div 16)

\* Cartridge::load, the mirroring of the header
header_mirroring(flags6) ==
    IF And(flags6, 8) # 0 THEN "FourScreen"
    ELSE IF And(flags6, 1) = 0 THEN "Horizontal" ELSE "Vertical"

\* Cartridge::load, the reads of the reset vector that end it: they panic
\* when the mapper indexes outside PRG ROM or divides by its zero length
LoadPanics(c) ==
    IF c.mapper.kind = "Uxrom" /\ PrgLen(c) = 0 THEN TRUE ELSE ReadPanics(c, 65532)

\* Cartridge::load: the result for an image
load(img) ==
    LET err(e, id) == [result |-> e, id |-> id,
                       cartridge |-> Cartridge_load("Nrom", "Horizontal", 0, 0)]
        built(c, id) == IF LoadPanics(c) THEN [err("panic", id) EXCEPT !.cartridge = c]
                        ELSE [result |-> "Ok", id |-> id, cartridge |-> c]
    IN  IF img.len < 16 THEN err("InvalidHeader", -1)
        ELSE IF img.magic # INES_MAGIC THEN err("InvalidHeader", -1)
        ELSE LET prg_rom_size == img.prg * 16384
                 chr_rom_size == img.chr * 8192
                 id == mapper_id(img.flags6, img.flags7)
                 mirroring == header_mirroring(img.flags6)
             IN  IF img.len < header_size(img.flags6) + prg_rom_size + chr_rom_size
                 THEN err("InvalidHeader", -1)
                 ELSE CASE id = 0 -> built(Cartridge_load("Nrom", mirroring, img.prg, img.chr), id)
                        [] id = 1 -> built(Cartridge_load("Mmc1", mirroring, img.prg, img.chr), id)
                        [] id = 2 -> built(Cartridge_load("Uxrom", mirroring, img.prg, img.chr), id)
                        [] id = 3 -> built(Cartridge_load("Cnrom", mirroring, img.prg, img.chr), id)
                        [] id = 4 -> built(Cartridge_load("Mmc3", mirroring, img.prg, img.chr), id)
                        [] OTHER -> err("UnsupportedMapper", id)

ImageLens ==
    {0, 15, 16, 8207, 8208, 16399, 16400, 24591, 24592, 25103, 25104, 32784, 40976,
     41488}
ImageMagics == {INES_MAGIC, <<78, 69, 83, 0>>}
ImagePrgBanks == {0, 1, 2}
ImageChrBanks == {0, 1}
ImageFlags6 == {0, 4, 9, 16, 32, 52, 64, 80}
ImageFlags7 == {0, 8, 16}

Images ==
    [len : ImageLens, magic : ImageMagics, prg : ImagePrgBanks, chr : ImageChrBanks,
     flags6 : ImageFlags6, flags7 : ImageFlags7]

\* EmulatorApp::load_rom, once in a session: on Ok the emulation is replaced
\* by a new one for the cartridge, on Err the running one is kept; a panic
\* ends the session.
LoadRom ==
    \E img \in Images :
        /\ drv.phase = "idle" /\ drv.load = "none"
        /\ LET kept(r) ==
                   /\ drv' = [drv EXCEPT !.image = img, !.load = r.result,
                                         !.load_id = r.id,
                                         !.phase = IF r.result = "panic" THEN "panicked"
                                                   ELSE "idle"]
                   /\ UNCHANGED <<cpu, ppu, apu, cart, bus, ev>>
               replaced(r, s) ==
                   /\ cpu' = s.cpu /\ ppu' = s.ppu /\ apu' = s.apu /\ cart' = s.cart
                   /\ bus' = s.bus /\ ev' = ev0
                   /\ drv' = [drv EXCEPT !.image = img, !.load = r.result,
                                         !.load_id = r.id, !.before = r.cartridge.mapper]
               loaded(r) ==
                   IF r.result = "Ok"
                   THEN replaced(r, Cpu_reset([cpu |-> Cpu_new,
                                               ppu |-> set_mirroring(Ppu_new,
                                                                     r.cartridge.mirroring),
                                               apu |-> Apu_new, cart |-> r.cartridge,
                                               bus |-> MemoryBus_new, ev |-> ev0]))
                   ELSE kept(r)
           IN  loaded(load(img))

InitLoad ==
    Power("EmulationState", Cartridge_load("Nrom", "Horizontal", 2, 1), "none", 0, 0,
          FALSE)

NextLoad == LoadRom

SpecLoad == InitLoad /\ [][NextLoad]_vars

\* the image is shorter than its header, trainer, PRG and CHR together
Truncated(img) ==
    img.len < 16 + (IF And(img.flags6, 4) # 0 THEN 512 ELSE 0) + img.prg * 16384
                  + img.chr * 8192

\* the image is not well-formed
Malformed(img) == img.len < 16 \/ img.magic # INES_MAGIC \/ Truncated(img)

\* C27: Cartridge::load returns InvalidHeader for every image that is shorter
\* than 16 bytes, has a wrong magic, or is shorter than header + optional
\* trainer + declared PRG + declared CHR, and UnsupportedMapper(id) for every
\* other image whose mapper id (flags7 & 0xF0) | (flags6 >> 4) is outside 0..4.
C27_LoadErrors ==
    drv.load # "none"
        => LET id == Or(And(drv.image.flags7, 240), drv.image.flags6 \div 16)
           IN  /\ Malformed(drv.image) => drv.load = "InvalidHeader"
               /\ (~Malformed(drv.image) /\ id \notin 0..4)
                      => (drv.load = "UnsupportedMapper" /\ drv.load_id = id)

\* C27, its cases: an image with a trainer that lacks only the last byte was
\* refused, and a complete image of mapper 5 with a trainer was refused
C27_TruncatedTrainerImageRefused ==
    /\ drv.load = "InvalidHeader" /\ drv.image.magic = INES_MAGIC
    /\ drv.image.flags6 = 4 /\ drv.image.prg = 1 /\ drv.image.chr = 1
    /\ drv.image.len = 25103

C27_UnsupportedMapperRefused ==
    drv.load = "UnsupportedMapper" /\ drv.load_id = 5
---------------------------------------------------------------------------
(* Termination of step_frame: whole calls on a 32 KiB NROM image, built     *)
(* with or without overflow checks, the program starting a DMC sample (or   *)
(* not) right after reset.  The master loop keeps running until it exits    *)
(* or panics, hence the weak fairness of Tick and EndFrame.                 *)

MaxTermFrames == 1

InitTerm ==
    \E checks \in BOOLEAN :
        Power("Emulator", Cartridge_load("Nrom", "Horizontal", 2, 1), "term", FuelTerm,
              MaxTermFrames * PPU_CYCLES_PER_FRAME, checks)

NextTerm == BeginFrame \/ Tick \/ EndFrame

\* Tick is enabled: the loop condition holds and the run is within its bound
TickEnabled ==
    /\ drv.phase = "running"
    /\ drv.ppu_cycles_this_frame < PPU_CYCLES_PER_FRAME
    /\ drv.clock < drv.limit

\* Weak fairness of Tick, with its enabling condition written out
FairTick == []<>~TickEnabled \/ []<><<Tick>>_vars

SpecTerm == InitTerm /\ [][NextTerm]_vars /\ FairTick /\ WF_vars(EndFrame)

C28_FramePanicked ==
    drv.phase = "panicked" /\ drv.ppu_cycles_this_frame < 89342
---------------------------------------------------------------------------
(* The Android binding (src/nesium-android/src/lib.rs): two threads call    *)
(* the JNI entry points, thread 1 those of the emulation loop and of the    *)
(* ROM picker, thread 2 those of the touch controls.  drv.owner is the thread holding the guard of the  *)
(* EMULATOR mutex (0: none), drv.present says whether the Option inside is  *)
(* Some, drv.pc and drv.call are each thread's position and entry point.    *)
(* While the Option is None the system variables hold the state a new       *)
(* emulator starts in.                                                      *)

MaxLockFrames == 1

EntryPoints(t) ==
    IF t = 1 THEN {"runFrame", "getAudioSamples", "loadRom"}
    ELSE {"pressButton", "releaseButton", "unloadRom"}

\* a mutex whose lock() never waits
EMULATOR_lock_unguarded(owner) == TRUE

\* EMULATOR.lock(): the guard is handed out when no thread holds it
EMULATOR_lock(owner) == owner = 0

\* NesEmulator::new
NesEmulator_new(cartridge) ==
    Cpu_reset([cpu |-> Cpu_new, ppu |-> set_mirroring(Ppu_new, cartridge.mirroring),
               apu |-> Apu_new, cart |-> cartridge, bus |-> MemoryBus_new,
               ev |-> ev0])

\* NesEmulator::press_button / release_button for button A
press_button(b) == [b EXCEPT !.input.controller1.buttons = Or(@, 1)]

release_button(b) == [b EXCEPT !.input.controller1.buttons = And(@, 254)]

\* A thread enters a JNI entry point
CallEntry(t) ==
    \E c \in EntryPoints(t) :
        /\ drv.pc[t] = "idle"
        /\ c = "runFrame" => drv.accesses < MaxLockFrames
        /\ drv' = [drv EXCEPT !.pc[t] = "waiting", !.call[t] = c,
                              !.accesses = IF c = "runFrame" THEN @ + 1 ELSE @]
        /\ ev' = ev0
        /\ UNCHANGED <<cpu, ppu, apu, cart, bus>>

\* EMULATOR.lock() returns the guard to the thread
Acquire(t) ==
    /\ drv.pc[t] = "waiting"
    /\ EMULATOR_lock(drv.owner)
    /\ drv' = [drv EXCEPT !.pc[t] = "inside", !.owner = t]
    /\ ev' = ev0
    /\ UNCHANGED <<cpu, ppu, apu, cart, bus>>

\* The body of an entry point other than a runFrame that steps a frame: it
\* reads or writes the emulator and drops the guard.  ev.api is the thread,
\* ev.api_locked whether it held the guard, ev.api_during whether a
\* step_frame call was running.
Body(t) ==
    /\ drv.pc[t] = "inside"
    /\ drv.call[t] # "runFrame" \/ ~drv.present
    /\ LET c == drv.call[t]
           fresh == c \in {"loadRom", "unloadRom"}
           done(s) ==
               /\ cpu' = s.cpu /\ ppu' = s.ppu /\ apu' = s.apu /\ cart' = s.cart
               /\ bus' = CASE c = "pressButton" /\ drv.present -> press_button(s.bus)
                           [] c = "releaseButton" /\ drv.present -> release_button(s.bus)
                           [] OTHER -> s.bus
               /\ ev' = [ev0 EXCEPT !.api = t, !.api_locked = drv.owner = t,
                                    !.api_during = drv.phase = "running"]
               /\ drv' = [drv EXCEPT
                            !.pc[t] = "idle", !.call[t] = "none", !.owner = 0,
                            !.present = CASE c = "loadRom" -> TRUE
                                          [] c = "unloadRom" -> FALSE
                                          [] OTHER -> @,
                            !.ppu_cycles_this_frame = IF fresh THEN 0 ELSE @,
                            !.acc3 = IF fresh THEN 0 ELSE @,
                            !.phase = IF fresh THEN "idle" ELSE @]
       IN  done(IF fresh THEN NesEmulator_new(cart) ELSE Sys)

\* run_frame_inner calls step_frame
FrameBegin(t) ==
    /\ drv.pc[t] = "inside" /\ drv.call[t] = "runFrame" /\ drv.present
    /\ drv.phase = "idle"
    /\ drv' = [drv EXCEPT !.phase = "running", !.ppu_cycles_this_frame = 0,
                          !.start_scanline = ppu.scanline, !.start_cycle = ppu.cycle]
    /\ ev' = [ev0 EXCEPT !.line_after = ev.line_after]
    /\ UNCHANGED <<cpu, ppu, apu, cart, bus>>

\* One iteration of the master loop of the step_frame a thread is running
FrameTick ==
    /\ \E t \in Threads : drv.pc[t] = "inside" /\ drv.call[t] = "runFrame"
    /\ Tick

\* step_frame returns, run_frame_inner copies the framebuffer out and drops
\* the guard
FrameEnd(t) ==
    /\ drv.pc[t] = "inside" /\ drv.call[t] = "runFrame"
    /\ drv.phase = "running"
    /\ drv.ppu_cycles_this_frame = PPU_CYCLES_PER_FRAME
    /\ drv' = [drv EXCEPT !.phase = "idle", !.frames = drv.frames + 1,
                          !.pc[t] = "idle", !.call[t] = "none", !.owner = 0]
    /\ ev' = [ev0 EXCEPT !.line_after = ev.line_after]
    /\ UNCHANGED <<cpu, ppu, apu, cart, bus>>

InitLock ==
    Power("NesEmulator", Cartridge_load("Nrom", "Horizontal", 1, 1), "none", 0,
          MaxLockFrames * PPU_CYCLES_PER_FRAME, FALSE)

NextLock ==
    \/ \E t \in Threads : CallEntry(t) \/ Acquire(t) \/ Body(t) \/ FrameBegin(t)
                          \/ FrameEnd(t)
    \/ FrameTick

SpecLock == InitLock /\ [][NextLock]_vars

\* the threads that are between EMULATOR.lock() and the drop of the guard
Inside == {t \in Threads : drv.pc[t] = "inside"}

\* C29: every access to the emulator by an entry point of the Android
\* binding happens while its thread holds the EMULATOR mutex: at most one
\* thread is inside an entry point, it is the owner of the mutex, and while a
\* step_frame call is running no other entry point reads or writes the
\* emulator.
C29_AccessUnderMutex ==
    /\ Cardinality(Inside) <= 1
    /\ \A t \in Inside : drv.owner = t
    /\ drv.phase = "running" => \E t \in Inside : drv.call[t] = "runFrame"
    /\ ev.api # 0 => (ev.api_locked /\ ~ev.api_during)

\* C29, its case: a step_frame call is running inside runFrame while the
\* other thread waits in pressButton for the mutex
C29_PressWaitsForFrame ==
    /\ drv.phase = "running" /\ drv.ppu_cycles_this_frame > 0
    /\ \E t \in Threads : drv.pc[t] = "waiting" /\ drv.call[t] = "pressButton"

\* C29: the button was pressed after the frame, by the thread that waited
C29_PressAfterFrame ==
    ev.api # 0 /\ drv.frames > 0 /\ bus.input.controller1.buttons = 1
\* C36: Cartridge::load returns Ok or Err for every image and never panics,
\* whatever PRG size, CHR size, flags and mapper id the header declares.
C36_LoadNeverPanics ==
    drv.load # "none" => drv.load \in {"Ok", "InvalidHeader", "UnsupportedMapper"}

\* C36 as the code has it: load panics only for well-formed images of a
\* supported mapper that declare no PRG bank, and does so for mappers 0, 2, 3
C36_PanicsWithoutPrg ==
    LET id == Or(And(drv.image.flags7, 240), drv.image.flags6 \div 16)
    IN  /\ drv.load = "panic"
            => (drv.image.prg = 0 /\ ~Malformed(drv.image) /\ id \in 0..4)
        /\ (drv.load # "none" /\ drv.image.prg = 0 /\ ~Malformed(drv.image)
                /\ id \in {0, 2, 3})
            => drv.load = "panic"

\* C36: a complete 16-byte NROM image declaring no PRG and no CHR bank
\* panicked in load
C36_EmptyNromImagePanicked ==
    /\ drv.load = "panic" /\ drv.phase = "panicked" /\ drv.image.len = 16
    /\ drv.image.prg = 0 /\ drv.image.chr = 0 /\ drv.image.flags6 = 0
    /\ drv.image.flags7 = 0

---------------------------------------------------------------------------
(* The sprite unit of the PPU, dot by dot.                                 *)

MaxSpriteLine == 3

MaxOamWrites == 3

OamValues == {1, 64, 250}

CtrlValues == {8, 32}

SpriteMaskValues == {16, 24}

\* u8::reverse_bits
reverse_bits(b) ==
    Bit(b, 0) * 128 + Bit(b, 1) * 64 + Bit(b, 2) * 32 + Bit(b, 3) * 16
        + Bit(b, 4) * 8 + Bit(b, 5) * 4 + Bit(b, 6) * 2 + Bit(b, 7)

\* Ppu::evaluate_sprites_cycle, the test of one OAM entry against the line
sprite_on_line(p, i) ==
    LET y == At(p.oam, i * 4, 0)
        sprite_height == IF And(p.ctrl, 32) # 0 THEN 16 ELSE 8
    IN  y < 240 /\ p.scanline >= y /\ p.scanline < y + sprite_height

\* Ppu::evaluate_sprites_cycle: at dot 65 the first eight OAM entries on the
\* line are copied to secondary OAM; a ninth sets the overflow flag
evaluate_sprites_cycle(p) ==
    IF p.cycle # 65 THEN p
    ELSE LET found == SelectSeq([k \in 1..64 |-> k - 1],
                                LAMBDA i : sprite_on_line(p, i))
             count == IF Len(found) < 8 THEN Len(found) ELSE 8
         IN  [p EXCEPT
                !.sprite_count = count,
                !.secondary_oam =
                    [k \in 0..31 |->
                        IF k \div 4 < count
                        THEN At(p.oam, found[(k \div 4) + 1] * 4 + (k % 4), 0)
                        ELSE p.secondary_oam[k]],
                !.status = IF Len(found) > 8 THEN Or(p.status, 32) ELSE p.status]

\* Ppu::fetch_sprite_data, the pattern address of a slot's row
sprite_pattern_addr(p, sprite_idx) ==
    LET sprite_y == p.scanline - p.secondary_oam[sprite_idx * 4]
        sprite_tile == p.secondary_oam[sprite_idx * 4 + 1]
        sprite_attr == p.secondary_oam[sprite_idx * 4 + 2]
        sprite_row == IF And(sprite_attr, 128) # 0 THEN 7 - (sprite_y % 8)
                      ELSE sprite_y % 8
    IN  IF And(p.ctrl, 32) # 0
        THEN Or(Or(And(sprite_tile, 254) * 16, And(sprite_tile, 1) * 4096), sprite_row)
        ELSE Or(Or(IF And(p.ctrl, 8) # 0 THEN 4096 ELSE 0, sprite_tile * 16), sprite_row)

\* Ppu::fetch_sprite_data, the byte a fetch stores: flipped when attribute
\* bit 6 is set
sprite_pattern(p, c, b, sprite_idx, plane) ==
    LET pattern == Cartridge_ppu_read(c, b, Or(sprite_pattern_addr(p, sprite_idx), plane))
    IN  IF And(p.secondary_oam[sprite_idx * 4 + 2], 64) # 0
        THEN reverse_bits(pattern) ELSE pattern

\* Ppu::fetch_sprite_data
fetch_sprite_data(p, c, b, sprite_idx, phase) ==
    IF sprite_idx >= p.sprite_count THEN p
    ELSE IF phase = 0
    THEN [p EXCEPT !.sprite_patterns_low[sprite_idx] =
                        sprite_pattern(p, c, b, sprite_idx, 0)]
    ELSE IF phase = 4
    THEN [p EXCEPT !.sprite_patterns_high[sprite_idx] =
                        sprite_pattern(p, c, b, sprite_idx, 8),
                   !.sprite_positions[sprite_idx] = p.secondary_oam[sprite_idx * 4 + 3],
                   !.sprite_attributes[sprite_idx] = p.secondary_oam[sprite_idx * 4 + 2]]
    ELSE p

\* Ppu::step, the sprite unit on a visible scanline: secondary OAM is cleared
\* at dot 1, evaluation runs at dots 65..256 and the fetch arm is the fourth
\* of the chain, after the arms of dots 1..256, dot 257 and dot 258
Ppu_step_sprites(p, c, b) ==
    IF p.scanline >= 0 /\ p.scanline < 240
    THEN LET p1 == IF p.cycle = 1
                   THEN [p EXCEPT !.secondary_oam = [k \in 0..31 |-> 255],
                                  !.sprite_count = 0]
                   ELSE p
             p2 == IF p1.cycle >= 65 /\ p1.cycle <= 256
                   THEN evaluate_sprites_cycle(p1) ELSE p1
         IN  IF p2.cycle >= 1 /\ p2.cycle <= 256 THEN p2
             ELSE IF p2.cycle = 257 THEN p2
             ELSE IF p2.cycle = 258 THEN p2
             ELSE IF p2.cycle >= 257 /\ p2.cycle <= 320
             THEN LET sprite_cycle == p2.cycle - 257
                      sprite_idx == sprite_cycle \div 8
                      sprite_phase == sprite_cycle % 8
                  IN  IF sprite_idx < p2.sprite_count
                         /\ (sprite_phase = 0 \/ sprite_phase = 4)
                      THEN fetch_sprite_data(p2, c, b, sprite_idx, sprite_phase)
                      ELSE p2
             ELSE p2
    ELSE p

\* The slot whose high plane, position and attribute a dot's fetch loads
SlotFetched(p) ==
    IF p.scanline >= 0 /\ p.scanline < 240 /\ p.cycle >= 259 /\ p.cycle <= 320
       /\ (p.cycle - 257) % 8 = 4 /\ (p.cycle - 257) \div 8 < p.sprite_count
    THEN {(p.cycle - 257) \div 8} ELSE {}

\* One Ppu::step call of the frame driver, sprite unit included
SpriteDot ==
    /\ ppu.scanline < MaxSpriteLine
    /\ LET done(s) ==
               LET newline == s.ppu.cycle = 0
               IN  /\ cpu' = s.cpu /\ ppu' = s.ppu /\ apu' = s.apu /\ cart' = s.cart
                   /\ bus' = s.bus /\ ev' = s.ev
                   /\ drv' = [drv EXCEPT
                                !.calls = drv.calls + 1,
                                !.at_scanline = ppu.scanline,
                                !.at_cycle = ppu.cycle,
                                !.fetched = IF newline THEN {}
                                            ELSE drv.fetched \cup SlotFetched(ppu),
                                !.filled = IF newline THEN Cardinality(drv.fetched)
                                           ELSE drv.filled]
       IN  done(step_ppu([Sys EXCEPT !.ppu = Ppu_step_sprites(ppu, cart, bus)]))

\* The program's setup before the first dot: OAMDATA, PPUCTRL and PPUMASK
OamWrite ==
    \E value \in OamValues :
        /\ drv.calls = 0 /\ drv.writes < MaxOamWrites /\ ppu.ctrl = 0 /\ ppu.mask = 0
        /\ BusWriteStep(8196, value)
        /\ drv' = [drv EXCEPT !.writes = drv.writes + 1]

CtrlWrite ==
    \E value \in CtrlValues :
        /\ drv.calls = 0 /\ ppu.ctrl = 0 /\ ppu.mask = 0
        /\ BusWriteStep(8192, value)
        /\ UNCHANGED drv

SpriteMaskWrite ==
    \E value \in SpriteMaskValues :
        /\ drv.calls = 0 /\ ppu.mask = 0
        /\ BusWriteStep(8193, value)
        /\ UNCHANGED drv

InitSprites ==
    Power("Emulator", Cartridge_load("Nrom", "Horizontal", 1, 1), "none", 0, 0, FALSE)

NextSprites == SpriteDot \/ OamWrite \/ CtrlWrite \/ SpriteMaskWrite

SpecSprites == InitSprites /\ [][NextSprites]_vars

\* The latch contents the fetch of slot i should produce on this line
SlotLoaded(i) ==
    /\ ppu.sprite_patterns_low[i] = sprite_pattern(ppu, cart, bus, i, 0)
    /\ ppu.sprite_patterns_high[i] = sprite_pattern(ppu, cart, bus, i, 8)
    /\ ppu.sprite_attributes[i] = ppu.secondary_oam[i * 4 + 2]
    /\ ppu.sprite_positions[i] = ppu.secondary_oam[i * 4 + 3]

AfterSpriteFetch ==
    drv.at_scanline >= 0 /\ drv.at_scanline < 240 /\ drv.at_cycle = 320

\* C31: when dots 257..320 of a visible scanline have run, every slot
\* selected by evaluation (0..sprite_count-1, slot 0 included) holds its
\* sprite's pattern low byte, pattern high byte, attribute and X position.
C31_SpriteLatchesLoaded ==
    AfterSpriteFetch =>
        \A i \in 0..7 : i < ppu.sprite_count => SlotLoaded(i)

\* C31 as the code has it: slots 1..7 are loaded in full, slot 0 only in its
\* high plane, attribute and position (its low-plane dot is dot 257)
C31_SlotsAfterZeroLoaded ==
    AfterSpriteFetch =>
        /\ \A i \in 1..7 : i < ppu.sprite_count => SlotLoaded(i)
        /\ ppu.sprite_count > 0 =>
              /\ ppu.sprite_patterns_high[0] = sprite_pattern(ppu, cart, bus, 0, 8)
              /\ ppu.sprite_attributes[0] = ppu.secondary_oam[2]
              /\ ppu.sprite_positions[0] = ppu.secondary_oam[3]
              /\ ppu.sprite_patterns_low[0] = 0

\* C31: a line with two or more selected sprites has been fetched
C31_TwoSlotsFetched ==
    AfterSpriteFetch /\ ppu.sprite_count >= 2 /\ SlotLoaded(1)
\* A dot at which render_pixel has walked the sprite latches
SpritesRendered ==
    /\ drv.at_scanline >= 0 /\ drv.at_scanline < 240
    /\ drv.at_cycle >= 1 /\ drv.at_cycle <= 256
    /\ And(ppu.mask, 16) # 0

\* C33: at every dot 1..256 of a visible scanline at which render_pixel
\* runs, sprite_count equals the number of slots whose latches the sprite
\* fetch of the preceding scanline filled.
C33_CountMatchesLatches ==
    SpritesRendered => ppu.sprite_count = drv.filled

\* C33 as the code has it: the count is zero up to dot 64 and from dot 65 on
\* it is the count of the line being drawn, whose fetch has not happened yet
C33_CountOfCurrentLine ==
    SpritesRendered =>
        ppu.sprite_count =
            IF drv.at_cycle < 65 THEN 0
            ELSE LET line == [ppu EXCEPT !.scanline = drv.at_scanline]
                     on == {i \in 0..63 : sprite_on_line(line, i)}
                 IN  IF Cardinality(on) < 8 THEN Cardinality(on) ELSE 8

\* C33: pixels of line 0 are drawn with eight slots although no fetch has
\* filled any latch
C33_RenderedBeforeFetch ==
    SpritesRendered /\ drv.at_scanline = 0 /\ ppu.sprite_count = 8 /\ drv.filled = 0

\* C33: pixels are drawn with no slot although the preceding line filled some
C33_LatchesDropped ==
    SpritesRendered /\ ppu.sprite_count = 0 /\ drv.filled > 0
---------------------------------------------------------------------------
(* CNROM: bank-select writes and pattern reads through PPUDATA.            *)

MaxBankWrites == 2

MaxAddrWrites == 2

MaxChrReads == 2

ChrBankCounts == {1, 2, 4, 5, 16}

ChrBankValues == {0, 1, 3, 4, 15, 19}

BankSelectAddrs == {32768, 65535}

AddrBytes == {0, 31, 255}

\* A CPU write to 0x8000-0xFFFF: the CNROM bank select
BankSelect ==
    \E addr \in BankSelectAddrs, value \in ChrBankValues :
        /\ drv.writes < MaxBankWrites
        /\ BusWriteStep(addr, value)
        /\ drv' = [drv EXCEPT !.writes = drv.writes + 1]

\* A CPU write to PPUADDR
AddrWrite ==
    \E value \in AddrBytes :
        /\ drv.calls < MaxAddrWrites
        /\ BusWriteStep(8198, value)
        /\ drv' = [drv EXCEPT !.calls = drv.calls + 1]

\* A CPU read of PPUDATA: a pattern address goes to CnromMapper::ppu_read
ChrRead ==
    /\ drv.accesses < MaxChrReads
    /\ And(ppu.vram_addr, 16383) <= 8191
    /\ LET done(r) ==
               /\ cpu' = r.s.cpu /\ ppu' = r.s.ppu /\ apu' = r.s.apu /\ cart' = r.s.cart
               /\ bus' = r.s.bus
               /\ ev' = [r.s.ev EXCEPT !.read = 8199, !.read_value = r.value]
               /\ drv' = [drv EXCEPT !.accesses = drv.accesses + 1,
                                     !.v_before = ppu.vram_addr]
       IN  done(Bus_read(Sys, 8199))

InitCnrom ==
    \E chr_banks \in ChrBankCounts :
        Power("Emulator", Cartridge_load("Cnrom", "Horizontal", 1, chr_banks),
              "none", 0, 0, FALSE)

NextCnrom == BankSelect \/ AddrWrite \/ ChrRead

SpecCnrom == InitCnrom /\ [][NextCnrom]_vars

\* C32: for CNROM with CHR ROM, after any sequence of bank-select writes the
\* index chr_bank * 0x2000 + (addr & 0x1FFF) of every pattern address is
\* less than the CHR ROM length, for every installed bank count.
C32_ChrIndexInRange ==
    \A addr \in {0, 8191} : Cnrom_ppu_index(cart.mapper, addr) < ChrLen(cart)

\* C32 as the code has it: the selected bank is below 4 (up to 4 banks
\* installed) or below 16 (more), so the index is in range for 4 and 16 banks
C32_ChrIndexMasked ==
    /\ cart.mapper.chr_bank < (IF cart.chr_banks > 4 THEN 16 ELSE 4)
    /\ cart.chr_banks \in {4, 16} => C32_ChrIndexInRange

\* C32: a pattern read went past the end of a two-bank CHR ROM and the
\* buffer took the fallback byte 0
C32_ReadPastChrRom ==
    /\ ev.read = 8199 /\ cart.chr_banks = 2 /\ cart.mapper.chr_bank = 3
    /\ Cnrom_ppu_index(cart.mapper, drv.v_before) >= ChrLen(cart)
    /\ ppu.vram_read_buffer = 0
---------------------------------------------------------------------------
(* The frame-counter IRQ flag under single CPU reads and writes: the APU   *)
(* is stepped one CPU cycle at a time until the sequencer has raised the   *)
(* flag, then the CPU reads and writes the bus.                            *)

MaxCyclesFlag == 29832

FlagWindow == 29828

MaxFlagAccesses == 2

FlagReadAddrs == {0, 8194, 16384, 16405, 16406, 16407, 16408, 32768}

FlagWrites == {<<0, 64>>, <<16384, 64>>, <<16405, 0>>, <<16405, 31>>, <<16406, 1>>,
               <<16407, 0>>, <<16407, 64>>, <<16407, 128>>, <<16407, 192>>,
               <<32768, 64>>}

\* MemoryBus::step_apu(1), before the first access
FlagApuStep ==
    LET done(s) ==
            /\ cpu' = s.cpu /\ ppu' = s.ppu /\ apu' = s.apu /\ cart' = s.cart
            /\ bus' = s.bus /\ ev' = s.ev
    IN  /\ drv.clock < drv.limit /\ drv.accesses = 0
        /\ done(step_apu(Sys, 1))
        /\ drv' = [drv EXCEPT !.clock = drv.clock + 1]

\* One CPU read
FlagRead ==
    \E addr \in FlagReadAddrs :
        LET done(r) ==
                /\ cpu' = r.s.cpu /\ ppu' = r.s.ppu /\ apu' = r.s.apu
                /\ cart' = r.s.cart /\ bus' = r.s.bus
                /\ ev' = [r.s.ev EXCEPT !.read = addr, !.read_value = r.value,
                                        !.flag_before = apu.frame_counter_interrupt]
        IN  /\ drv.clock >= FlagWindow /\ drv.accesses < MaxFlagAccesses
            /\ done(Bus_read(Sys, addr))
            /\ drv' = [drv EXCEPT !.accesses = drv.accesses + 1]

\* One CPU write
FlagWrite ==
    \E w \in FlagWrites :
        LET done(s) ==
                /\ cpu' = s.cpu /\ ppu' = s.ppu /\ apu' = s.apu /\ cart' = s.cart
                /\ bus' = s.bus
                /\ ev' = [s.ev EXCEPT !.wrote = w[1], !.wrote_value = w[2],
                                      !.flag_before = apu.frame_counter_interrupt]
        IN  /\ drv.clock >= FlagWindow /\ drv.accesses < MaxFlagAccesses
            /\ done(Bus_write(Sys, w[1], w[2]))
            /\ drv' = [drv EXCEPT !.accesses = drv.accesses + 1]

InitFlag ==
    Power("Emulator", Cartridge_load("Nrom", "Horizontal", 1, 1), "none", 0,
          MaxCyclesFlag, FALSE)

NextFlag == FlagApuStep \/ FlagRead \/ FlagWrite

SpecFlag == InitFlag /\ [][NextFlag]_vars

\* A bus access found the flag set and left it clear
FlagCleared ==
    (ev.read # -1 \/ ev.wrote # -1) /\ ev.flag_before /\ ~apu.frame_counter_interrupt

\* C34: a bus access clears the set frame-counter IRQ flag only if it is a
\* read of 0x4015 or a write to 0x4017 with the IRQ-inhibit bit (0x40) set.
C34_FlagClearedOnlyBy4015Or4017 ==
    FlagCleared =>
        ev.read = 16405 \/ (ev.wrote = 16407 /\ And(ev.wrote_value, 64) # 0)

\* C34 as the code has it: a read of 0x4017 clears the flag as well, and
\* these three accesses always clear it
C34_FlagClearedAlsoByRead4017 ==
    /\ FlagCleared =>
          \/ ev.read \in {16405, 16407}
          \/ (ev.wrote = 16407 /\ And(ev.wrote_value, 64) # 0)
    /\ (ev.read \in {16405, 16407} \/ (ev.wrote = 16407 /\ And(ev.wrote_value, 64) # 0))
          => ~apu.frame_counter_interrupt

\* C34: the set flag was cleared by a read of the second controller port
C34_Read4017ClearedFlag ==
    FlagCleared /\ ev.read = 16407
---------------------------------------------------------------------------
(* One timeline: the CPU cycle counter against the cycles the frame driver *)
(* charges, over a run in which the program enables the NMI and VBlank     *)
(* arrives.                                                                *)

MaxTicksTimeline == 83000

InitTimeline ==
    Power("Emulator", Cartridge_load("Nrom", "Horizontal", 1, 1), "nmi", FuelNmi,
          MaxTicksTimeline, FALSE)

NextTimeline == BeginFrame \/ Tick

SpecTimeline == InitTimeline /\ [][NextTimeline]_vars

\* The interrupt entries of the last master tick
Entries(e) == (IF e.nmi_taken THEN 1 ELSE 0) + (IF e.irq_taken THEN 1 ELSE 0)

\* C35: over every master tick the CPU cycle counter grows by exactly the
\* cycles the frame driver subtracted from its accumulator and passed to
\* step_apu in that tick, the 7 cycles of an NMI or IRQ entry included; so
\* the two totals agree at every tick boundary.
C35_OneTimeline ==
    [][ev'.stepped => cpu'.cycles - cpu.cycles = ev'.step_cycles]_vars

\* C35 as the code has it: the counter also grows by 7 for each NMI or IRQ
\* entry, cycles the driver neither subtracts nor passes to step_apu
C35_EntriesUncharged ==
    [][ev'.stepped =>
          cpu'.cycles - cpu.cycles = ev'.step_cycles + 7 * Entries(ev')]_vars

\* C35: a master tick entered the NMI handler
C35_NmiEntered ==
    ev.stepped /\ ev.nmi_taken /\ ev.scanline = 241 /\ ev.cycle = 1
---------------------------------------------------------------------------
(* Reset between frames: the program may start an OAM DMA in the last      *)
(* ticks of the first frame, the session is reset when step_frame has      *)
(* returned, and the second frame begins.                                  *)

MaxTicksReset == 12

\* EmulationState::reset (Session::reset), once, between two frames
SessionReset ==
    LET done(s) ==
            /\ cpu' = s.cpu /\ ppu' = s.ppu /\ apu' = s.apu /\ cart' = s.cart
            /\ bus' = s.bus /\ ev' = s.ev
    IN  /\ drv.phase = "idle" /\ drv.frames >= 1 /\ ~drv.reset
        /\ done(Cpu_reset(Sys))
        /\ drv' = [drv EXCEPT !.reset = TRUE, !.ppu_cycles_this_frame = 0, !.acc3 = 0]

InitReset ==
    Power("EmulationState", Cartridge_load("Nrom", "Horizontal", 1, 1), "reset",
          FuelStall, PPU_CYCLES_PER_FRAME + MaxTicksReset, FALSE)

NextReset == BeginFrame \/ Tick \/ EndFrame \/ SessionReset

SpecReset == InitReset /\ [][NextReset]_vars

\* The first Cpu::step after the reset has just run: the accumulator was
\* zeroed, so it is the step of the third master tick of the next frame
FirstStepAfterReset ==
    drv.reset /\ drv.phase = "running" /\ drv.ppu_cycles_this_frame = 3
        /\ ev.cpu_stepped

\* C37: the first Cpu::step after a reset fetches and executes the opcode at
\* the address stored in the reset vector, whatever the CPU was doing when
\* the reset was called.
C37_FirstStepRunsResetVector ==
    FirstStepAfterReset => (ev.executed # "none" /\ ev.stall_before = 0)

\* C37 as the code has it: the reset loads pc from the vector and leaves the
\* stall counter alone, and the first step executes an opcode exactly when
\* no stall cycle was left
C37_StallSurvivesReset ==
    /\ (drv.reset /\ drv.phase = "idle") => cpu.pc = RESET_VECTOR
    /\ FirstStepAfterReset => (ev.executed # "none" <=> ev.stall_before = 0)
    /\ (FirstStepAfterReset /\ ev.stall_before > 0) =>
          (cpu.pc = RESET_VECTOR /\ cpu.stall_cycles = ev.stall_before - 1)

\* C37: the first step after a reset executed the opcode at the reset vector
C37_ResetVectorExecuted ==
    FirstStepAfterReset /\ ev.executed = "JMP_abs" /\ cpu.pc = RESET_VECTOR

\* C37: the first step after a reset was a stall cycle of the OAM DMA that
\* was running when the reset was called
C37_FirstStepStalled ==
    FirstStepAfterReset /\ ev.executed = "none" /\ ev.stall_before > 0
---------------------------------------------------------------------------
(* The Android binding after a panic: one thread calls loadRom, runFrame   *)
(* and unloadRom in any order.  The build has overflow checks or not; with *)
(* them the program (a DMC sample on a 32 KiB NROM image) makes step_frame *)
(* panic inside runFrame.  drv.poisoned is the poison flag of the          *)
(* EMULATOR mutex, drv.jni the last entry point called, drv.ret what it    *)
(* returned (0 for unloadRom), drv.recovery the calls made since a panic   *)
(* was caught: 0 none, 1 unloadRom, 2 then loadRom, 3 then runFrame.       *)

MaxJniCalls == 5

MaxPoisonTicks == 12

\* std::sync::Mutex::lock on EMULATOR, called by the only thread: Ok unless
\* a thread panicked while it held the guard
EMULATOR_lock_result(poisoned) == IF poisoned THEN "Err" ELSE "Ok"

\* The position of a call in the sequence unloadRom, loadRom, runFrame that
\* follows a caught panic
Recovery(call) ==
    CASE drv.recovery = 0 /\ call = "unloadRom" -> 1
      [] drv.recovery = 1 /\ call = "loadRom" -> 2
      [] drv.recovery = 2 /\ call = "runFrame" -> 3
      [] drv.recovery = -1 -> -1
      [] OTHER -> 4

\* Java_com_nesium_NesiumCore_loadRom with a well-formed image of the
\* cartridge: 1 and a new emulator when the lock is Ok, else 0
JniLoadRom ==
    /\ drv.phase = "idle" /\ drv.calls < MaxJniCalls
    /\ LET ok == EMULATOR_lock_result(drv.poisoned) = "Ok"
           done(s) ==
               /\ cpu' = s.cpu /\ ppu' = s.ppu /\ apu' = s.apu /\ cart' = s.cart
               /\ bus' = s.bus /\ ev' = ev0
               /\ drv' = [drv EXCEPT !.calls = @ + 1, !.jni = "loadRom",
                                     !.ret = IF ok THEN 1 ELSE 0,
                                     !.present = IF ok THEN TRUE ELSE @,
                                     !.ppu_cycles_this_frame = IF ok THEN 0 ELSE @,
                                     !.acc3 = IF ok THEN 0 ELSE @,
                                     !.recovery = Recovery("loadRom")]
       IN  done(IF ok THEN NesEmulator_new(cart) ELSE Sys)

\* Java_com_nesium_NesiumCore_unloadRom: the emulator is dropped when the
\* lock is Ok, nothing happens otherwise
JniUnloadRom ==
    /\ drv.phase = "idle" /\ drv.calls < MaxJniCalls
    /\ LET ok == EMULATOR_lock_result(drv.poisoned) = "Ok"
       IN  drv' = [drv EXCEPT !.calls = @ + 1, !.jni = "unloadRom", !.ret = 0,
                              !.present = IF ok THEN FALSE ELSE @,
                              !.recovery = Recovery("unloadRom")]
    /\ ev' = ev0
    /\ UNCHANGED <<cpu, ppu, apu, cart, bus>>

\* run_frame_inner up to the call of step_frame: -1 when the lock is Err,
\* -3 when no ROM is loaded
JniRunFrame ==
    /\ drv.phase = "idle" /\ drv.calls < MaxJniCalls
    /\ LET ok == EMULATOR_lock_result(drv.poisoned) = "Ok"
           steps == ok /\ drv.present
       IN  drv' = [drv EXCEPT !.calls = @ + 1, !.jni = "runFrame",
                              !.ret = IF ~ok THEN -1 ELSE IF ~drv.present THEN -3 ELSE @,
                              !.phase = IF steps THEN "running" ELSE "idle",
                              !.ppu_cycles_this_frame = IF steps THEN 0 ELSE @,
                              !.recovery = IF steps THEN @ ELSE Recovery("runFrame")]
    /\ ev' = [ev0 EXCEPT !.line_after = ev.line_after]
    /\ UNCHANGED <<cpu, ppu, apu, cart, bus>>

\* One iteration of the master loop of the step_frame runFrame is running
JniFrameTick ==
    /\ drv.jni = "runFrame"
    /\ Tick

\* step_frame returns: run_frame_inner copies the framebuffer out, drops the
\* guard and returns 1
JniFrameEnd ==
    /\ drv.jni = "runFrame" /\ drv.phase = "running"
    /\ drv.ppu_cycles_this_frame = PPU_CYCLES_PER_FRAME
    /\ drv' = [drv EXCEPT !.phase = "idle", !.frames = @ + 1, !.ret = 1,
                          !.recovery = Recovery("runFrame")]
    /\ ev' = [ev0 EXCEPT !.line_after = ev.line_after]
    /\ UNCHANGED <<cpu, ppu, apu, cart, bus>>

\* step_frame panics: the guard is dropped while the thread unwinds, which
\* poisons the mutex; catch_unwind stops the panic and runFrame returns 0
JniFramePanic ==
    /\ drv.jni = "runFrame" /\ drv.phase = "panicked"
    /\ drv' = [drv EXCEPT !.phase = "idle", !.ret = 0, !.poisoned = TRUE,
                          !.recovery = 0]
    /\ ev' = [ev0 EXCEPT !.line_after = ev.line_after]
    /\ UNCHANGED <<cpu, ppu, apu, cart, bus>>

InitPoison ==
    \E checks \in BOOLEAN :
        Power("NesEmulator", Cartridge_load("Nrom", "Horizontal", 2, 1), "term",
              FuelTerm, PPU_CYCLES_PER_FRAME + MaxPoisonTicks, checks)

NextPoison ==
    JniLoadRom \/ JniUnloadRom \/ JniRunFrame \/ JniFrameTick \/ JniFrameEnd
        \/ JniFramePanic

SpecPoison == InitPoison /\ [][NextPoison]_vars

\* C38: after a panic inside runFrame was caught, an unloadRom followed by a
\* loadRom succeeds (loadRom returns 1 and an emulator is present) and the
\* runFrame after them returns 1.
C38_RecoversAfterPanic ==
    /\ (drv.recovery = 2 /\ drv.phase = "idle") => (drv.ret = 1 /\ drv.present)
    /\ (drv.recovery = 3 /\ drv.phase = "idle") => drv.ret = 1

\* C38 as the code has it: once a panic was caught the mutex is poisoned for
\* good; unloadRom leaves the emulator in place, loadRom returns 0 and
\* runFrame returns -1 without stepping
C38_PoisonedForGood ==
    /\ drv.recovery >= 0 => drv.poisoned
    /\ drv.poisoned => (drv.present /\ drv.phase = "idle")
    /\ (drv.recovery = 2 /\ drv.phase = "idle") => drv.ret = 0
    /\ (drv.recovery = 3 /\ drv.phase = "idle") => drv.ret = -1

\* C38: the sequence panic, unloadRom, loadRom, runFrame was made and the
\* last runFrame returned -1
C38_RunFrameRefused ==
    drv.recovery = 3 /\ drv.phase = "idle" /\ drv.jni = "runFrame" /\ drv.ret = -1

\* C38: without a panic, a frame was run and runFrame returned 1
C38_FrameRun ==
    drv.recovery = -1 /\ drv.jni = "runFrame" /\ drv.frames = 1 /\ drv.ret = 1
---------------------------------------------------------------------------
(* The noise channel's LFSR: the timer is clocked (Apu::step does it on    *)
(* every other CPU cycle) and the CPU writes the mode and period register   *)
(* 0x400E in between.                                                       *)

NoiseWrites == {0, 128}

\* NoiseChannel::clock_timer, called once by Apu::step
NoiseClock ==
    /\ apu' = [apu EXCEPT !.noise = NoiseChannel_clock_timer(apu.noise)]
    /\ ev' = [ev0 EXCEPT !.timer = TRUE]
    /\ UNCHANGED <<cpu, ppu, cart, bus, drv>>

\* A CPU write to 0x400E: mode flag and timer period
NoiseWrite ==
    \E value \in NoiseWrites :
        /\ And(value, 128) # 0 <=> ~apu.noise.mode
        /\ BusWriteStep(16398, value)
        /\ UNCHANGED drv

InitNoise ==
    Power("Emulator", Cartridge_load("Nrom", "Horizontal", 1, 1), "none", 0, 0, FALSE)

NextNoise == NoiseClock \/ NoiseWrite

SpecNoise == InitNoise /\ [][NextNoise]_vars

\* C39: the noise LFSR, seeded to 1, is never zero and never exceeds 0x7FFF,
\* after any number of timer clocks in either feedback mode and across any
\* sequence of mode changes.
C39_LfsrNonZero15Bit ==
    apu.noise.shift_register >= 1 /\ apu.noise.shift_register <= 32767

\* C39: the LFSR has been clocked to all ones in mode 1, which only a run
\* with a mode change reaches
C39_AllOnesInModeOne ==
    ev.timer /\ apu.noise.mode /\ apu.noise.shift_register = 32767
---------------------------------------------------------------------------
(* The audio ring buffer (src/src/ui/audio.rs): thread 1 is the emulator   *)
(* thread, which queues the samples of a frame, thread 2 the audio         *)
(* callback.  Both take the mutex around the buffer (drv.owner) for the    *)
(* whole call.  The capacity is RingCapacity here (BUFFER_SIZE is 16384 in *)
(* the source); drv.live is the set of cells that hold a sample written    *)
(* and not yet consumed, drv.overwrote tells that a write stored into such *)
(* a cell.                                                                 *)

RingCapacity == 3

MaxChunk == 2

MaxOutput == 3

\* resample_pos, in input samples, is followed up to this value (with a step
\* above 1 and a buffer that keeps running down to one sample it grows
\* without bound)
MaxResamplePos == 3

SampleValues == {1, 2}

\* 44100 / output_sample_rate for devices of 22050, 44100, 48000 and 88200 Hz
ResampleSteps == {<<2, 1>>, <<1, 1>>, <<147, 160>>, <<1, 2>>}

Chunks == UNION {[1..n -> SampleValues] : n \in 1..MaxChunk}

\* sample_buffer.lock(): the guard is handed out when no thread holds it
sample_buffer_lock(owner) == owner = 0

\* AudioOutput::new: the buffer is created for the device's sample rate
AudioOutput_new ==
    \E step \in ResampleSteps :
        /\ drv.api = "none"
        /\ drv' = [drv EXCEPT !.api = "audio",
                              !.audio = RingBuffer_new(RingCapacity, step[1], step[2])]
        /\ ev' = ev0
        /\ UNCHANGED <<cpu, ppu, apu, cart, bus>>

\* A thread calls sample_buffer.lock() and gets the guard
AudioLock(t) ==
    /\ drv.api = "audio" /\ drv.pc[t] = "idle"
    /\ sample_buffer_lock(drv.owner)
    /\ drv' = [drv EXCEPT !.pc[t] = "inside", !.owner = t]
    /\ ev' = ev0
    /\ UNCHANGED <<cpu, ppu, apu, cart, bus>>

\* AudioOutput::queue_samples, under the guard: RingBuffer::write
QueueSamples ==
    \E samples \in Chunks :
        LET w == RingBuffer_write(drv.audio, drv.live, samples)
        IN  /\ drv.pc[1] = "inside"
            /\ drv' = [drv EXCEPT !.pc[1] = "idle", !.owner = 0, !.audio = w.ring,
                                  !.live = w.live,
                                  !.overwrote = drv.overwrote \/ w.overwrote]
            /\ ev' = [ev0 EXCEPT !.api = 1, !.api_locked = drv.owner = 1]
            /\ UNCHANGED <<cpu, ppu, apu, cart, bus>>

\* The output callback, under the guard: RingBuffer::read_resampled
AudioCallback ==
    \E n \in 1..MaxOutput :
        LET x == RingBuffer_read_resampled(drv.audio, drv.live, n)
        IN  /\ drv.pc[2] = "inside"
            /\ x.ring.resample_pos <= MaxResamplePos * x.ring.step_den
            /\ drv' = [drv EXCEPT !.pc[2] = "idle", !.owner = 0, !.audio = x.ring,
                                  !.live = x.live]
            /\ ev' = [ev0 EXCEPT !.api = 2, !.api_locked = drv.owner = 2]
            /\ UNCHANGED <<cpu, ppu, apu, cart, bus>>

InitAudio ==
    Power("EmulationState", Cartridge_load("Nrom", "Horizontal", 1, 1), "none", 0, 0,
          FALSE)

NextAudio ==
    AudioOutput_new \/ (\E t \in Threads : AudioLock(t)) \/ QueueSamples
        \/ AudioCallback

SpecAudio == InitAudio /\ [][NextAudio]_vars

\* C40: after every operation of the two threads, in every interleaving,
\* 0 <= count <= capacity, write_pos = (read_pos + count) mod capacity, every
\* access was made under the mutex, and no write has stored into a cell whose
\* sample was not yet consumed.
C40_RingBufferInvariant ==
    drv.api = "audio" =>
        /\ drv.audio.count >= 0 /\ drv.audio.count <= capacity(drv.audio)
        /\ drv.audio.write_pos
               = (drv.audio.read_pos + drv.audio.count) % capacity(drv.audio)
        /\ ~drv.overwrote
        /\ drv.live = {(drv.audio.read_pos + k) % capacity(drv.audio) :
                           k \in 0..(drv.audio.count - 1)}
        /\ ev.api # 0 => ev.api_locked

\* C40: the emulator thread has just written to a full buffer that had
\* wrapped around, and the samples that did not fit were dropped
C40_FullAfterWrap ==
    /\ ev.api = 1 /\ drv.audio.count = capacity(drv.audio)
    /\ drv.audio.read_pos > 0 /\ drv.audio.write_pos = drv.audio.read_pos

\* C40: the callback has drained the buffer with the 48 kHz step
C40_DrainedAt48k ==
    /\ ev.api = 2 /\ drv.audio.step_den = 160 /\ drv.audio.count = 0
    /\ drv.audio.read_pos > 0

====
